---- MODULE Spec2Model ----
(***************************************************************************)
(* Thread store of agentic-protein-design                                  *)
(* (src/src/agentic_protein_design/core/chat_store.py).                    *)
(*                                                                         *)
(* Strings are sequences of one-character strings, so that tag sanitation, *)
(* filename derivation, glob matching and lexicographic sorting are        *)
(* computed on characters as the code computes them.  The chats directory  *)
(* is a function from filenames to file texts; a file text is <<>> (an     *)
(* empty file, as left by the truncating open of Path.write_text) or       *)
(* <<payload>> (one complete JSON document).                               *)
(***************************************************************************)
EXTENDS Integers, Sequences, FiniteSets, TLC

VARIABLES
    files,      \* chats directory: filename -> file text
    clock,      \* the wall clock read by _now_iso
    nwrites,    \* number of file writes completed so far
    nextId,     \* number of message ids drawn from uuid4 so far
    ret,        \* sequential caller: result of its last call
    owned,      \* history: files written only by create_thread and by its own appends
    pc,         \* concurrent callers: position inside the call in progress
    loc,        \* concurrent callers: local variables of the call in progress
    rets        \* concurrent callers: result of the last finished call

vars == <<files, clock, nwrites, nextId, ret, owned, pc, loc, rets>>

----------------------------------------------------------------------------
(* Bounds *)

MaxClock == 2
MaxWrites == 3
MaxTagLen == 4
MaxMsgs == 2
MaxChars == 3

----------------------------------------------------------------------------
(* Characters and strings *)

Empty == <<>>

NL == "\n"

\* the characters str.strip() removes, and those of [A-Za-z0-9_] and of
\* [0-9a-fA-F], among the characters the strings of the model are made of
WhiteSpace == {" ", NL}
WordChars == {"0", "1", "A", "B", "_", "a", "b", "g", "j", "n", "o", "s"}
HexChars == {"0", "1", "A", "B", "a", "b"}

\* str.lower()
Lower(c) ==
    CASE c = "A" -> "a" [] c = "B" -> "b" [] c = "T" -> "t" [] c = "X" -> "x"
      [] OTHER -> c
LowerStr(s) == [i \in 1..Len(s) |-> Lower(s[i])]

\* the strings of at most n characters of cs
Strings(cs, n) == UNION { [1..k -> cs] : k \in 0..n }

\* code points, for the ordering of Path objects and of strings
Code(c) ==
    CASE c = " " -> 32
      [] c = "-" -> 45
      [] c = "." -> 46
      [] c = "/" -> 47
      [] c = "0" -> 48
      [] c = "1" -> 49
      [] c = "A" -> 65
      [] c = "B" -> 66
      [] c = "T" -> 84
      [] c = "X" -> 88
      [] c = "\\" -> 92
      [] c = "_" -> 95
      [] c = "a" -> 97
      [] c = "b" -> 98
      [] c = "c" -> 99
      [] c = "d" -> 100
      [] c = "e" -> 101
      [] c = "f" -> 102
      [] c = "g" -> 103
      [] c = "h" -> 104
      [] c = "j" -> 106
      [] c = "k" -> 107
      [] c = "m" -> 109
      [] c = "n" -> 110
      [] c = "o" -> 111
      [] c = "r" -> 114
      [] c = "s" -> 115
      [] c = "t" -> 116
      [] c = "u" -> 117
      [] c = "x" -> 120
      [] c = "~" -> 126

RECURSIVE LStrip(_, _)
LStrip(s, cs) ==
    IF s = Empty \/ Head(s) \notin cs THEN s ELSE LStrip(Tail(s), cs)

RECURSIVE RStrip(_, _)
RStrip(s, cs) ==
    IF s = Empty \/ s[Len(s)] \notin cs THEN s
    ELSE RStrip(SubSeq(s, 1, Len(s) - 1), cs)

\* str.strip(chars)
Strip(s, cs) == RStrip(LStrip(s, cs), cs)

RECURSIVE DropNonWord(_)
DropNonWord(s) ==
    IF s = Empty \/ Head(s) \in WordChars THEN s ELSE DropNonWord(Tail(s))

\* re.sub(r"[^A-Za-z0-9_]+", "_", s)
RECURSIVE SubNonWordRuns(_)
SubNonWordRuns(s) ==
    IF s = Empty THEN Empty
    ELSE IF Head(s) \in WordChars THEN <<Head(s)>> \o SubNonWordRuns(Tail(s))
    ELSE <<"_">> \o SubNonWordRuns(DropNonWord(s))

\* a < b for strings, by code point
RECURSIVE StrLess(_, _)
StrLess(a, b) ==
    IF b = Empty THEN FALSE
    ELSE IF a = Empty THEN TRUE
    ELSE IF Head(a) = Head(b) THEN StrLess(Tail(a), Tail(b))
    ELSE Code(Head(a)) < Code(Head(b))

\* sorted(S) for a set of strings
RECURSIVE Sorted_Desc(_)
Sorted_Desc(S) ==
    IF S = {} THEN <<>>
    ELSE LET m == CHOOSE x \in S : \A y \in S \ {x} : StrLess(y, x)
         IN <<m>> \o Sorted_Desc(S \ {m})

RECURSIVE Sorted(_)
Sorted(S) ==
    IF S = {} THEN <<>>
    ELSE LET m == CHOOSE x \in S : \A y \in S \ {x} : StrLess(x, y)
         IN <<m>> \o Sorted(S \ {m})

EndsWith(s, suffix) ==
    /\ Len(s) >= Len(suffix)
    /\ SubSeq(s, Len(s) - Len(suffix) + 1, Len(s)) = suffix

InSeq(x, s) == \E i \in 1..Len(s) : s[i] = x

----------------------------------------------------------------------------
(* Inputs *)

\* thread ids: fixed-length lowercase hex strings (uuid4().hex)
T1 == <<"a", "0">>
T2 == <<"b", "1">>

\* process tags as callers pass them; Empty stands for None and ""
RawTags ==
    { Empty,
      <<"-", "-">>,
      <<" ", "a", "-">>,
      <<"B">> }

Titles == {"t"}
Roles == {"user"}

----------------------------------------------------------------------------
(* Tag codec *)

\* underscores stripped before the runs are replaced
_sanitize_llm_process_tag_StripFirst(llm_process_tag) ==
    IF llm_process_tag = Empty THEN Empty
    ELSE SubNonWordRuns(Strip(Strip(llm_process_tag, WhiteSpace), {"_"}))

_sanitize_llm_process_tag(llm_process_tag) ==
    IF llm_process_tag = Empty THEN Empty
    ELSE Strip(SubNonWordRuns(Strip(llm_process_tag, WhiteSpace)), {"_"})

JsonExt == <<".", "j", "s", "o", "n">>

_thread_filename(thread_id, llm_process_tag) ==
    LET tag == _sanitize_llm_process_tag(llm_process_tag)
    IN IF tag # Empty THEN tag \o <<"_">> \o thread_id \o JsonExt
       ELSE thread_id \o JsonExt

\* the chats directory is fixed, so a path is its filename
thread_path(thread_id, llm_process_tag) == _thread_filename(thread_id, llm_process_tag)

\* base.glob(f"*_{thread_id}.json")
Glob(fs, thread_id) ==
    { p \in DOMAIN fs : EndsWith(p, <<"_">> \o thread_id \o JsonExt) }

_candidate_thread_paths_LegacyFirst(fs, thread_id, llm_process_tag) ==
    LET c1 == << _thread_filename(thread_id, Empty) >>
        preferred == _thread_filename(thread_id, llm_process_tag)
        c2 == IF ~InSeq(preferred, c1) THEN Append(c1, preferred) ELSE c1
        NotIn(p) == ~InSeq(p, c2)
    IN c2 \o SelectSeq(Sorted(Glob(fs, thread_id)), NotIn)

_candidate_thread_paths(fs, thread_id, llm_process_tag) ==
    LET c1 == << _thread_filename(thread_id, llm_process_tag) >>
        legacy == _thread_filename(thread_id, Empty)
        c2 == IF ~InSeq(legacy, c1) THEN Append(c1, legacy) ELSE c1
        NotIn(p) == ~InSeq(p, c2)
    IN c2 \o SelectSeq(Sorted(Glob(fs, thread_id)), NotIn)

----------------------------------------------------------------------------
(* Thread references *)

HexLen == 32

\* s matches ^[A-Za-z0-9_]+_[0-9a-fA-F]{32} up to its last character: a hex
\* digit is no underscore, so the id group is the last HexLen characters
TaggedId(s) ==
    /\ Len(s) >= HexLen + 2
    /\ s[Len(s) - HexLen] = "_"
    /\ \A i \in 1..(Len(s) - HexLen - 1) : s[i] \in WordChars
    /\ \A i \in (Len(s) - HexLen + 1)..Len(s) : s[i] \in HexChars

LastChars(s, n) == SubSeq(s, Len(s) - n + 1, Len(s))

\* re.match(r"^(?P<tag>[A-Za-z0-9_]+)_(?P<tid>[0-9a-fA-F]{32})$", ref): the
\* groups "tid" matched, none or one; $ matches at the end of the string and
\* before a newline that ends it
re_match_tid(ref) ==
    IF TaggedId(ref) THEN << LastChars(ref, HexLen) >>
    ELSE IF /\ ref # Empty
            /\ ref[Len(ref)] = NL
            /\ TaggedId(SubSeq(ref, 1, Len(ref) - 1))
         THEN << LastChars(SubSeq(ref, 1, Len(ref) - 1), HexLen) >>
    ELSE <<>>

\* ref[:-5] if ref.endswith(".json")
DropJsonExt(ref) ==
    IF EndsWith(ref, JsonExt) THEN SubSeq(ref, 1, Len(ref) - Len(JsonExt)) ELSE ref

resolve_matched_AsMatched(ref, m) ==
    IF m # <<>> THEN m[1] ELSE ref

resolve_matched(ref, m) ==
    IF m # <<>> THEN LowerStr(m[1]) ELSE ref

\* resolve_thread_identifier; Empty stands for None and ""
resolve_thread_identifier(thread_ref) ==
    LET ref == Strip(thread_ref, WhiteSpace)
    IN IF ref = Empty THEN ref
       ELSE resolve_matched(DropJsonExt(ref), re_match_tid(DropJsonExt(ref)))

----------------------------------------------------------------------------
(* File texts *)

EmptyText == <<>>
json_dumps(payload) == <<payload>>

Put(fs, path, text) ==
    [p \in DOMAIN fs \cup {path} |-> IF p = path THEN text ELSE fs[p]]

Exists(fs, path) == path \in DOMAIN fs

----------------------------------------------------------------------------
(* Thread store: functions of the directory *)

\* the payload create_thread builds
NewThread(tid, title, normalized_tag, now) ==
    [thread_id |-> tid,
     title |-> title,
     created_at |-> now,
     updated_at |-> now,
     llm_process_tag |-> normalized_tag,
     messages |-> <<>>]

create_thread_AnyCandidate(fs, title, thread_id, llm_process_tag, now) ==
    LET tid == thread_id
        normalized_tag == _sanitize_llm_process_tag(llm_process_tag)
        path == thread_path(tid, normalized_tag)
        tried == _candidate_thread_paths(fs, tid, normalized_tag)
    IN IF \E i \in 1..Len(tried) : Exists(fs, tried[i]) THEN
           [kind |-> "FileExistsError", path |-> path]
       ELSE
           [kind |-> "thread", path |-> path,
            payload |-> NewThread(tid, title, normalized_tag, now)]

\* create_thread: the exception raised, or the path written and the payload
\* written there and returned.  thread_id is the caller's; a uuid4 drawn when
\* it is absent is one more id.
create_thread(fs, title, thread_id, llm_process_tag, now) ==
    LET tid == thread_id
        normalized_tag == _sanitize_llm_process_tag(llm_process_tag)
        path == thread_path(tid, normalized_tag)
    IN IF Exists(fs, path) THEN
           [kind |-> "FileExistsError", path |-> path]
       ELSE
           [kind |-> "thread", path |-> path,
            payload |-> NewThread(tid, title, normalized_tag, now)]

load_thread_NoFallback(fs, thread_id, llm_process_tag) ==
    LET path == _thread_filename(thread_id, llm_process_tag)
    IN IF ~Exists(fs, path) THEN
           [kind |-> "FileNotFoundError", searched |-> <<path>>]
       ELSE IF fs[path] = EmptyText THEN
           [kind |-> "JSONDecodeError", src |-> path]
       ELSE
           [kind |-> "thread", src |-> path, payload |-> fs[path][1]]

load_thread_FirstTried(fs, thread_id, llm_process_tag) ==
    LET r == load_thread_NoFallback(fs, thread_id, llm_process_tag)
        candidates == _candidate_thread_paths(fs, thread_id, llm_process_tag)
        found == { i \in 1..Len(candidates) : Exists(fs, candidates[i]) }
    IN IF found = {} THEN r
       ELSE LET i == CHOOSE j \in found : \A k \in found : j <= k
                payload == fs[candidates[i]][1]
            IN [kind |-> "thread", src |-> candidates[i],
                payload |-> IF payload.llm_process_tag = Empty
                            THEN [payload EXCEPT !.llm_process_tag =
                                      _sanitize_llm_process_tag(llm_process_tag)]
                            ELSE payload]

\* a load that lets the tag of the call replace the stored one
load_thread_HintWins(fs, thread_id, llm_process_tag) ==
    LET r == load_thread_NoFallback(fs, thread_id, llm_process_tag)
        candidates == _candidate_thread_paths(fs, thread_id, llm_process_tag)
        found == { i \in 1..Len(candidates) : Exists(fs, candidates[i]) }
    IN IF found = {} THEN [kind |-> "FileNotFoundError", searched |-> candidates]
       ELSE LET i == CHOOSE j \in found : \A k \in found : j <= k
                payload == fs[candidates[i]][1]
            IN [kind |-> "thread", src |-> candidates[i],
                payload |-> IF llm_process_tag # Empty
                            THEN [payload EXCEPT !.llm_process_tag =
                                      _sanitize_llm_process_tag(llm_process_tag)]
                            ELSE payload]

\* load_thread: the value returned or the exception raised; src is the path
\* the payload was read from
load_thread(fs, thread_id, llm_process_tag) ==
    LET candidates == _candidate_thread_paths(fs, thread_id, llm_process_tag)
        found == { i \in 1..Len(candidates) : Exists(fs, candidates[i]) }
    IN IF found = {} THEN
           [kind |-> "FileNotFoundError", searched |-> candidates]
       ELSE
           LET i == CHOOSE j \in found : \A k \in found : j <= k
               path == candidates[i]
               text == fs[path]
           IN IF text = EmptyText THEN
                  [kind |-> "JSONDecodeError", src |-> path]
              ELSE
                  LET payload == text[1]
                  IN [kind |-> "thread",
                      src |-> path,
                      payload |->
                          IF payload.llm_process_tag = Empty
                          THEN [payload EXCEPT !.llm_process_tag =
                                    _sanitize_llm_process_tag(llm_process_tag)]
                          ELSE payload]

\* a save that prefers the tag the thread holds to the tag of the call
save_thread_StoredTagFirst(thread, llm_process_tag, now) ==
    LET tid == thread.thread_id
        effective_tag == _sanitize_llm_process_tag(
            IF thread.llm_process_tag # Empty THEN thread.llm_process_tag
            ELSE llm_process_tag)
    IN [path |-> thread_path(tid, effective_tag),
        thread |-> [thread EXCEPT !.llm_process_tag = effective_tag,
                                  !.updated_at = now]]

\* a save that leaves the tag of the payload as it was
save_thread_KeepsStoredTag(thread, llm_process_tag, now) ==
    LET tid == thread.thread_id
        effective_tag == _sanitize_llm_process_tag(
            IF llm_process_tag # Empty THEN llm_process_tag
            ELSE thread.llm_process_tag)
    IN [path |-> thread_path(tid, effective_tag),
        thread |-> [thread EXCEPT !.updated_at = now]]

\* save_thread: the path written and the payload written there
save_thread(thread, llm_process_tag, now) ==
    LET tid == thread.thread_id
        effective_tag == _sanitize_llm_process_tag(
            IF llm_process_tag # Empty THEN llm_process_tag
            ELSE thread.llm_process_tag)
    IN [path |-> thread_path(tid, effective_tag),
        thread |-> [thread EXCEPT !.llm_process_tag = effective_tag,
                                  !.updated_at = now]]

\* the message append_message builds
NewMessage(message_id, now, role) ==
    [message_id |-> message_id, ts |-> now, role |-> role]

AppendTo_Front(thread, message) ==
    [thread EXCEPT !.messages = <<message>> \o @]

\* thread.setdefault("messages", []).append(message)
AppendTo(thread, message) ==
    [thread EXCEPT !.messages = Append(@, message)]

\* append_message after load_thread returned r: the exception passed on, or
\* the message returned, the path written and the thread written there
append_saved(r, message, s) ==
    [kind |-> "message", message |-> message, src |-> r.src,
     path |-> s.path, thread |-> s.thread]

append_loaded(r, message, llm_process_tag, now) ==
    IF r.kind # "thread" THEN r
    ELSE append_saved(r, message,
                      save_thread(AppendTo(r.payload, message), llm_process_tag, now))

\* an append that starts the thread when no file of the id is found
append_message_Upsert(fs, thread_id, role, llm_process_tag, now, message_id) ==
    LET r == load_thread(fs, thread_id, llm_process_tag)
        message == NewMessage(message_id, now, role)
        fresh == NewThread(thread_id, "", _sanitize_llm_process_tag(llm_process_tag), now)
    IN IF r.kind = "FileNotFoundError" THEN
           append_saved([src |-> thread_path(thread_id, llm_process_tag)], message,
                        save_thread(AppendTo(fresh, message), llm_process_tag, now))
       ELSE append_loaded(r, message, llm_process_tag, now)

append_message(fs, thread_id, role, llm_process_tag, now, message_id) ==
    append_loaded(load_thread(fs, thread_id, llm_process_tag),
                  NewMessage(message_id, now, role), llm_process_tag, now)

----------------------------------------------------------------------------
(* Listing.  Besides the texts the store writes, a *.json file of the      *)
(* chats directory can hold bytes that are not UTF-8, or a JSON document   *)
(* that is not an object.                                                  *)

JsonArray == [json |-> "array"]

NotUtf8 == <<[bytes |-> "not utf-8"]>>
NotObject == <<JsonArray>>

\* the summary list_threads makes of the payload read from p
ThreadSummary(p, payload) ==
    [thread_id |-> payload.thread_id,
     title |-> payload.title,
     updated_at |-> payload.updated_at,
     n_messages |-> Len(payload.messages),
     llm_process_tag |-> _sanitize_llm_process_tag(payload.llm_process_tag),
     file |-> p]

\* the loop of list_threads over the sorted paths: the summaries collected,
\* or the exception that leaves the loop
RECURSIVE list_scan(_, _, _, _)
list_scan(fs, paths, tag_filter, out) ==
    IF paths = <<>> THEN [kind |-> "list", out |-> out]
    ELSE LET p == Head(paths)
             text == fs[p]
         IN IF text = NotUtf8 THEN
                [kind |-> "UnicodeDecodeError", file |-> p]
            ELSE IF text = EmptyText THEN
                \* json.JSONDecodeError: continue
                list_scan(fs, Tail(paths), tag_filter, out)
            ELSE IF text[1] = JsonArray THEN
                \* payload.get on a value that is no dict
                [kind |-> "AttributeError", file |-> p]
            ELSE IF /\ tag_filter # Empty
                    /\ _sanitize_llm_process_tag(text[1].llm_process_tag) # tag_filter
                 THEN list_scan(fs, Tail(paths), tag_filter, out)
            ELSE list_scan(fs, Tail(paths), tag_filter,
                           Append(out, ThreadSummary(p, text[1])))

\* x put behind every summary that is not older than it
RECURSIVE InsertByUpdatedAt(_, _)
InsertByUpdatedAt(s, x) ==
    IF s = <<>> THEN <<x>>
    ELSE IF Head(s).updated_at >= x.updated_at
         THEN <<Head(s)>> \o InsertByUpdatedAt(Tail(s), x)
         ELSE <<x>> \o s

\* an ascending sort turned around: summaries of equal updated_at come out
\* in reverse discovery order
RECURSIVE SortByUpdatedAt_AscendingReversed(_)
SortByUpdatedAt_AscendingReversed(out) ==
    IF out = <<>> THEN <<>>
    ELSE InsertByUpdatedAt(SortByUpdatedAt_AscendingReversed(Tail(out)), Head(out))

\* out.sort(key=updated_at, reverse=True): stable.  updated_at is a clock
\* reading; the ISO strings of one timezone compare as the readings do.
RECURSIVE SortByUpdatedAt(_)
SortByUpdatedAt(out) ==
    IF out = <<>> THEN <<>>
    ELSE InsertByUpdatedAt(SortByUpdatedAt(SubSeq(out, 1, Len(out) - 1)), out[Len(out)])

list_sorted(r) ==
    IF r.kind # "list" THEN r ELSE [r EXCEPT !.out = SortByUpdatedAt(@)]

\* list_threads: the summaries returned or the exception raised; every file
\* of the directory is a *.json file
list_threads(fs, llm_process_tag) ==
    list_sorted(list_scan(fs, Sorted(DOMAIN fs),
                          _sanitize_llm_process_tag(llm_process_tag), <<>>))

----------------------------------------------------------------------------
(* Legacy store (src/chat_store.py): one file <thread_id>.json per thread, *)
(* no process tag                                                          *)

legacy_thread_path(thread_id) == thread_id \o JsonExt

\* the payload the legacy create_thread builds
legacy_NewThread(tid, title, now) ==
    [thread_id |-> tid,
     title |-> title,
     created_at |-> now,
     updated_at |-> now,
     messages |-> <<>>]

legacy_create_thread(fs, title, thread_id, now) ==
    IF Exists(fs, legacy_thread_path(thread_id)) THEN
        [kind |-> "FileExistsError", path |-> legacy_thread_path(thread_id)]
    ELSE
        [kind |-> "thread", path |-> legacy_thread_path(thread_id),
         payload |-> legacy_NewThread(thread_id, title, now)]

legacy_load_thread(fs, thread_id) ==
    IF ~Exists(fs, legacy_thread_path(thread_id)) THEN
        [kind |-> "FileNotFoundError", searched |-> << legacy_thread_path(thread_id) >>]
    ELSE IF fs[legacy_thread_path(thread_id)] = EmptyText THEN
        [kind |-> "JSONDecodeError", src |-> legacy_thread_path(thread_id)]
    ELSE
        [kind |-> "thread", src |-> legacy_thread_path(thread_id),
         payload |-> fs[legacy_thread_path(thread_id)][1]]

legacy_save_thread(thread, now) ==
    [path |-> legacy_thread_path(thread.thread_id),
     thread |-> [thread EXCEPT !.updated_at = now]]

legacy_append_loaded(r, message, now) ==
    IF r.kind # "thread" THEN r
    ELSE append_saved(r, message, legacy_save_thread(AppendTo(r.payload, message), now))

legacy_append_message(fs, thread_id, role, now, message_id) ==
    legacy_append_loaded(legacy_load_thread(fs, thread_id),
                         NewMessage(message_id, now, role), now)

legacy_ThreadSummary(p, payload) ==
    [thread_id |-> payload.thread_id,
     title |-> payload.title,
     updated_at |-> payload.updated_at,
     n_messages |-> Len(payload.messages),
     file |-> p]

RECURSIVE legacy_list_scan(_, _, _)
legacy_list_scan(fs, paths, out) ==
    IF paths = <<>> THEN [kind |-> "list", out |-> out]
    ELSE IF fs[Head(paths)] = NotUtf8 THEN
        [kind |-> "UnicodeDecodeError", file |-> Head(paths)]
    ELSE IF fs[Head(paths)] = EmptyText THEN
        legacy_list_scan(fs, Tail(paths), out)
    ELSE IF fs[Head(paths)][1] = JsonArray THEN
        [kind |-> "AttributeError", file |-> Head(paths)]
    ELSE legacy_list_scan(fs, Tail(paths),
                          Append(out, legacy_ThreadSummary(Head(paths), fs[Head(paths)][1])))

legacy_list_threads(fs) ==
    list_sorted(legacy_list_scan(fs, Sorted(DOMAIN fs), <<>>))

----------------------------------------------------------------------------
(* Context assembler (core/thread_context.py): paths referenced in message *)
(* metadata.  A metadata value is a string, a list or a dict (walked by    *)
(* value, in order) or another scalar.  The files outside the chats        *)
(* directory are fixed.                                                    *)

MdStr(text) == [t |-> "str", v |-> text]
MdList(values) == [t |-> "list", v |-> values]
MdDict(values) == [t |-> "dict", v |-> values]

MaxPathChars == 400

PathExtensions ==
    { <<".", "m", "d">>, <<".", "c", "s", "v">>, <<".", "j", "s", "o", "n">>,
      <<".", "t", "x", "t">>, <<".", "t", "s", "v">>,
      <<".", "p", "a", "r", "q", "u", "e", "t">>,
      <<".", "y", "a", "m", "l">>, <<".", "y", "m", "l">> }

StartsWith(s, prefix) ==
    /\ Len(s) >= Len(prefix)
    /\ SubSeq(s, 1, Len(prefix)) = prefix

\* re.search(r"^(?:/|\\./|\\.\\./|~\\/)", text): in the pattern as written a
\* doubled backslash is a literal backslash and the dot after it is any
\* character
StartsLikePath(text) ==
    \/ StartsWith(text, <<"/">>)
    \/ Len(text) >= 3 /\ text[1] = "\\" /\ text[3] = "/"
    \/ Len(text) >= 5 /\ text[1] = "\\" /\ text[3] = "\\" /\ text[5] = "/"
    \/ StartsWith(text, <<"~", "\\", "/">>)

\* re.search(r"\.(?:md|csv|json|txt|tsv|parquet|yaml|yml)$", text, re.IGNORECASE)
EndsLikeFile(text) ==
    \E ext \in PathExtensions : EndsWith(LowerStr(text), ext)

\* the test _walk_metadata_for_paths makes of a stripped string
IsPathText(text) ==
    /\ text # Empty
    /\ Len(text) <= MaxPathChars
    /\ \A i \in 1..Len(text) : text[i] \notin WhiteSpace
    /\ StartsLikePath(text) \/ EndsLikeFile(text)

\* _walk_metadata_for_paths: the strings it adds to out
RECURSIVE _walk_metadata_for_paths(_)
_walk_metadata_for_paths(metadata) ==
    IF metadata.t \in {"dict", "list"} THEN
        UNION { _walk_metadata_for_paths(metadata.v[i]) : i \in 1..Len(metadata.v) }
    ELSE IF metadata.t = "str" /\ IsPathText(Strip(metadata.v, WhiteSpace)) THEN
        { Strip(metadata.v, WhiteSpace) }
    ELSE {}

ProjectRoot == <<"/", "r">>
Cwd == <<"/", "c">>

Join(dir, name) == dir \o <<"/">> \o name

\* the segments of path between its "/" characters; cur is the segment begun
RECURSIVE PathParts(_, _)
PathParts(path, cur) ==
    IF path = <<>> THEN <<cur>>
    ELSE IF Head(path) = "/" THEN <<cur>> \o PathParts(Tail(path), <<>>)
    ELSE PathParts(Tail(path), Append(cur, Head(path)))

\* empty and "." segments dropped, ".." takes the segment before it away
RECURSIVE NormalParts(_, _)
NormalParts(parts, acc) ==
    IF parts = <<>> THEN acc
    ELSE IF Head(parts) = <<>> \/ Head(parts) = <<".">> THEN
        NormalParts(Tail(parts), acc)
    ELSE IF Head(parts) = <<".", ".">> THEN
        NormalParts(Tail(parts),
                    IF acc = <<>> THEN acc ELSE SubSeq(acc, 1, Len(acc) - 1))
    ELSE NormalParts(Tail(parts), Append(acc, Head(parts)))

RECURSIVE FromParts(_)
FromParts(parts) ==
    IF parts = <<>> THEN <<>>
    ELSE <<"/">> \o Head(parts) \o FromParts(Tail(parts))

\* Path.resolve() of an absolute path on a disk without links
Resolved(path) ==
    IF NormalParts(PathParts(path, <<>>), <<>>) = <<>> THEN <<"/">>
    ELSE FromParts(NormalParts(PathParts(path, <<>>), <<>>))

Home == <<"/", "h">>

\* Path(value).expanduser() raises RuntimeError for "~name" when the system
\* knows no user of that name
expanduser_raises(value) ==
    /\ Len(value) >= 2
    /\ value[1] = "~"
    /\ value[2] # "/"

\* Path(value).expanduser(): "~" is the home directory
expanduser(value) ==
    IF value = <<"~">> THEN Home
    ELSE IF StartsWith(value, <<"~", "/">>) THEN Home \o SubSeq(value, 2, Len(value))
    ELSE value

_collect_path_candidates(value, root) ==
    IF StartsWith(expanduser(value), <<"/">>) THEN <<expanduser(value)>>
    ELSE << Resolved(Join(root, expanduser(value))),
            Resolved(Join(Cwd, expanduser(value))) >>

\* what is on disk outside the chats directory
Disk ==
    (Join(ProjectRoot, <<"f", ".", "t", "x", "t">>) :>
         [kind |-> "file", text |-> <<"x", " ", "z">>])
    @@ (Join(ProjectRoot, <<"e", ".", "m", "d">>) :>
         [kind |-> "file", text |-> <<>>])
    @@ (Join(Cwd, <<"g", ".", "m", "d">>) :>
         [kind |-> "file", text |-> <<"w", " ">>])
    @@ (Join(ProjectRoot, <<"d", ".", "t", "x", "t">>) :>
         [kind |-> "dir"])
    @@ (Join(ProjectRoot, <<"u", ".", "t", "x", "t">>) :>
         [kind |-> "unreadable"])
    @@ (Join(Home, <<"k", ".", "m", "d">>) :>
         [kind |-> "file", text |-> <<"v">>])

\* the loop of extract_referenced_file_paths over the sorted raw values
RECURSIVE extract_resolved(_, _, _)
extract_resolved(raws, root, resolved) ==
    IF raws = <<>> THEN resolved
    ELSE LET OnDisk(candidate) == Resolved(candidate) \in DOMAIN Disk
             found == SelectSeq(_collect_path_candidates(Head(raws), root), OnDisk)
         IN IF found = <<>> \/ InSeq(Resolved(found[1]), resolved)
            THEN extract_resolved(Tail(raws), root, resolved)
            ELSE extract_resolved(Tail(raws), root,
                                  Append(resolved, Resolved(found[1])))

\* raw_values of extract_referenced_file_paths
raw_values(thread_payload) ==
    UNION { _walk_metadata_for_paths(thread_payload.messages[i].metadata) :
            i \in 1..Len(thread_payload.messages) }

\* the candidates taken in the order the walk meets them
extract_referenced_file_paths_InWalkOrder(thread_payload, root) ==
    LET RECURSIVE walk(_)
        walk(values) ==
            IF values = <<>> THEN <<>>
            ELSE (IF Head(values).t \in {"dict", "list"} THEN walk(Head(values).v)
                  ELSE IF /\ Head(values).t = "str"
                          /\ IsPathText(Strip(Head(values).v, WhiteSpace))
                       THEN << Strip(Head(values).v, WhiteSpace) >>
                  ELSE <<>>) \o walk(Tail(values))
    IN extract_resolved(
           walk([i \in 1..Len(thread_payload.messages) |->
                     thread_payload.messages[i].metadata]),
           root, <<>>)

\* extract_referenced_file_paths where no call of expanduser raises
extract_referenced_file_paths(thread_payload, root) ==
    extract_resolved(Sorted(raw_values(thread_payload)), root, <<>>)

\* the exception of expanduser leaves _collect_path_candidates and
\* extract_referenced_file_paths, which catch OSError around exists() only
extract_raises(thread_payload) ==
    \E raw \in raw_values(thread_payload) : expanduser_raises(raw)

\* extract_referenced_file_paths: the list returned or the exception raised
extract_result(thread_payload, root) ==
    IF extract_raises(thread_payload) THEN [kind |-> "RuntimeError"]
    ELSE [kind |-> "paths",
          paths |-> extract_referenced_file_paths(thread_payload, root)]

\* a slice that keeps the character at index n too
SliceTo_OneMore(text, n) ==
    SubSeq(text, 1, IF n + 1 < Len(text) THEN n + 1 ELSE Len(text))

\* text[:n]
SliceTo(text, n) ==
    IF n >= 0 THEN SubSeq(text, 1, IF n < Len(text) THEN n ELSE Len(text))
    ELSE SubSeq(text, 1, Len(text) + n)

\* read_files_as_context: the dict returned, as its items in insertion order;
\* reading a directory raises an OSError
RECURSIVE read_files_as_context(_, _)
read_files_as_context(paths, max_chars_per_file) ==
    IF paths = <<>> THEN <<>>
    ELSE IF Disk[Head(paths)].kind # "file"
         THEN read_files_as_context(Tail(paths), max_chars_per_file)
    ELSE << [path |-> Head(paths),
             text |-> SliceTo(Disk[Head(paths)].text, max_chars_per_file)] >>
             \o read_files_as_context(Tail(paths), max_chars_per_file)

----------------------------------------------------------------------------
(* Context assembler: the thread behind a reference, and its context       *)

\* the loop of find_thread_file over the sorted files of the chats directory
RECURSIVE find_scan(_, _, _, _)
find_scan(fs, paths, thread_id, thread_ref) ==
    IF paths = <<>> THEN
        [kind |-> "FileNotFoundError",
         msg |-> <<"Thread not found for reference=", thread_ref>>]
    ELSE LET text == fs[Head(paths)]
         IN IF text = NotUtf8 THEN
                [kind |-> "UnicodeDecodeError", file |-> Head(paths)]
            ELSE IF text = EmptyText THEN
                \* json.JSONDecodeError: continue
                find_scan(fs, Tail(paths), thread_id, thread_ref)
            ELSE IF text[1] = JsonArray THEN
                [kind |-> "AttributeError", file |-> Head(paths)]
            ELSE IF Strip(text[1].thread_id, WhiteSpace) = thread_id THEN
                [kind |-> "path", path |-> Head(paths)]
            ELSE find_scan(fs, Tail(paths), thread_id, thread_ref)

\* the scan looks for the reference as given
find_by_name_Unresolved(fs, thread_ref, ref, by_name) ==
    IF ref = Empty THEN
        [kind |-> "FileNotFoundError", msg |-> <<"Thread reference is empty.">>]
    ELSE IF Exists(fs, by_name) THEN
        [kind |-> "path", path |-> by_name]
    ELSE find_scan(fs, Sorted(DOMAIN fs), ref, thread_ref)

find_by_name(fs, thread_ref, ref, by_name) ==
    IF ref = Empty THEN
        [kind |-> "FileNotFoundError", msg |-> <<"Thread reference is empty.">>]
    ELSE IF Exists(fs, by_name) THEN
        [kind |-> "path", path |-> by_name]
    ELSE find_scan(fs, Sorted(DOMAIN fs), resolve_thread_identifier(ref), thread_ref)

\* find_thread_file: the path returned or the exception raised
find_thread_file(fs, thread_ref) ==
    find_by_name(fs, thread_ref, Strip(thread_ref, WhiteSpace),
                 DropJsonExt(Strip(thread_ref, WhiteSpace)) \o JsonExt)

load_found(fs, found) ==
    IF found.kind # "path" THEN found
    ELSE IF fs[found.path] = NotUtf8 THEN
        [kind |-> "UnicodeDecodeError", file |-> found.path]
    ELSE IF fs[found.path] = EmptyText THEN
        [kind |-> "JSONDecodeError", src |-> found.path]
    ELSE IF fs[found.path][1] = JsonArray THEN
        \* payload["_thread_file"] = ... on a value that is no dict
        [kind |-> "TypeError", file |-> found.path]
    ELSE [kind |-> "thread",
          payload |-> [_thread_file |-> found.path] @@ fs[found.path][1]]

load_thread_by_id(fs, thread_ref) == load_found(fs, find_thread_file(fs, thread_ref))

\* the loop of build_thread_context_bundle over reversed(messages), from
\* message i down
RECURSIVE scan_latest(_, _, _)
scan_latest(messages, i, latest) ==
    IF i = 0 \/ (latest.assistant # Empty /\ latest.user # Empty) THEN latest
    ELSE scan_latest(messages, i - 1,
             [assistant |-> IF latest.assistant = Empty /\ messages[i].role = "assistant"
                            THEN messages[i].content ELSE latest.assistant,
              user |-> IF latest.user = Empty /\ messages[i].role = "user"
                       THEN messages[i].content ELSE latest.user])

latest_messages(messages) ==
    scan_latest(messages, Len(messages), [assistant |-> Empty, user |-> Empty])

bundle_of(payload, paths, max_chars_per_file, latest) ==
    [kind |-> "bundle",
     thread_id |-> payload.thread_id,
     llm_process_tag |-> payload.llm_process_tag,
     thread_file |-> payload._thread_file,
     n_messages |-> Len(payload.messages),
     latest_user_message |-> latest.user,
     latest_assistant_message |-> latest.assistant,
     referenced_files |-> paths,
     referenced_file_contents |-> read_files_as_context(paths, max_chars_per_file),
     thread_payload |-> payload]

bundle_loaded(r, include_referenced_files, max_chars_per_file) ==
    IF r.kind # "thread" THEN r
    ELSE IF include_referenced_files /\ extract_raises(r.payload) THEN
        [kind |-> "RuntimeError"]
    ELSE bundle_of(r.payload,
                   IF include_referenced_files
                   THEN extract_referenced_file_paths(r.payload, ProjectRoot)
                   ELSE <<>>,
                   max_chars_per_file,
                   latest_messages(r.payload.messages))

\* build_thread_context_bundle: the bundle returned or the exception raised
build_thread_context_bundle(fs, thread_ref, include_referenced_files, max_chars_per_file) ==
    bundle_loaded(load_thread_by_id(fs, thread_ref),
                  include_referenced_files, max_chars_per_file)

\* sep.join(parts)
RECURSIVE JoinStr(_, _)
JoinStr(parts, sep) ==
    IF parts = <<>> THEN Empty
    ELSE IF Len(parts) = 1 THEN parts[1]
    ELSE parts[1] \o sep \o JoinStr(Tail(parts), sep)

\* f"FILE: {path}\n{text}"
FileBlock(item) ==
    <<"F", "I", "L", "E", ":", " ">> \o item.path \o <<NL>> \o item.text

FileBlocks(contents) == [i \in 1..Len(contents) |-> FileBlock(contents[i])]

NoBundle == [kind |-> "None"]

context_text_of_AsInThread(bundle) ==
    Strip(JoinStr(
              IF /\ bundle.n_messages > 0
                 /\ bundle.thread_payload.messages[bundle.n_messages].role = "user"
              THEN << bundle.latest_assistant_message, bundle.latest_user_message,
                      JoinStr(FileBlocks(bundle.referenced_file_contents), <<NL, NL>>) >>
              ELSE << bundle.latest_user_message, bundle.latest_assistant_message,
                      JoinStr(FileBlocks(bundle.referenced_file_contents), <<NL, NL>>) >>,
              <<NL, NL>>), WhiteSpace)

context_text_of(bundle) ==
    Strip(JoinStr(<< bundle.latest_user_message,
                     bundle.latest_assistant_message,
                     JoinStr(FileBlocks(bundle.referenced_file_contents), <<NL, NL>>) >>,
                  <<NL, NL>>), WhiteSpace)

\* build_thread_context_text after build_thread_context_bundle returned or
\* raised
context_built(bundle, on_missing) ==
    IF bundle.kind = "FileNotFoundError" THEN
        IF on_missing = "raise" THEN bundle
        ELSE [kind |-> "result", context_text |-> Empty, context_bundle |-> NoBundle,
              context_error |-> bundle.msg]
    ELSE IF bundle.kind # "bundle" THEN bundle
    ELSE [kind |-> "result", context_text |-> context_text_of(bundle),
          context_bundle |-> bundle, context_error |-> Empty]

\* build_thread_context_text: the dict returned or the exception raised
build_thread_context_text(fs, thread_ref, include_referenced_files, max_chars_per_file, on_missing) ==
    IF Strip(thread_ref, WhiteSpace) = Empty THEN
        [kind |-> "result", context_text |-> Empty, context_bundle |-> NoBundle,
         context_error |-> Empty]
    ELSE context_built(
             build_thread_context_bundle(fs, Strip(thread_ref, WhiteSpace),
                                         include_referenced_files, max_chars_per_file),
             on_missing)

----------------------------------------------------------------------------
(* Sequential caller: every call runs to completion.  ret holds the result *)
(* of the call until the caller takes it (Return) or, when it is a thread, *)
(* passes it to save_thread.                                               *)

\* the calls a caller makes: (thread_id, llm_process_tag)
Calls ==
    { <<T1, tag>> : tag \in RawTags } \cup { <<T2, <<"B">> >> }

Idle == [op |-> "none", kind |-> "none"]

NoOwner == [p \in {} |-> 0]

Without(f, path) == [p \in DOMAIN f \ {path} |-> f[p]]

Init ==
    /\ files = [p \in {} |-> EmptyText]
    /\ clock = 0
    /\ nwrites = 0
    /\ nextId = 0
    /\ ret = Idle
    /\ owned = NoOwner
    /\ pc = [c \in {} |-> "idle"]
    /\ loc = [c \in {} |-> 0]
    /\ rets = [c \in {} |-> 0]

\* time passes; datetime.now is taken not to step backwards
Tick ==
    /\ clock < MaxClock
    /\ clock' = clock + 1
    /\ UNCHANGED <<files, nwrites, nextId, ret, owned, pc, loc, rets>>

\* the caller takes the result
Return ==
    /\ ret # Idle
    /\ ret' = Idle
    /\ UNCHANGED <<files, clock, nwrites, nextId, owned, pc, loc, rets>>

\* the effect of a create_thread call whose outcome is r
CreateDone(thread_id, llm_process_tag, r) ==
    /\ ret' = [op |-> "create", tid |-> thread_id, tag |-> llm_process_tag] @@ r
    /\ IF r.kind = "FileExistsError" THEN
           UNCHANGED <<files, nwrites, owned>>
       ELSE
           /\ nwrites < MaxWrites
           /\ nwrites' = nwrites + 1
           /\ files' = Put(files, r.path, json_dumps(r.payload))
           /\ owned' = Put(owned, r.path,
                           [tid |-> thread_id, tag |-> llm_process_tag,
                            payload |-> r.payload, log |-> <<>>])
    /\ UNCHANGED <<clock, nextId, pc, loc, rets>>

CreateThread(title, thread_id, llm_process_tag) ==
    /\ ret = Idle
    /\ CreateDone(thread_id, llm_process_tag,
                  create_thread(files, title, thread_id, llm_process_tag, clock))

LoadThread(thread_id, llm_process_tag) ==
    /\ ret = Idle
    /\ ret' = [op |-> "load", tid |-> thread_id, tag |-> llm_process_tag]
                  @@ load_thread(files, thread_id, llm_process_tag)
    /\ UNCHANGED <<files, clock, nwrites, nextId, owned, pc, loc, rets>>

\* the effect of a save_thread call that writes s.thread to s.path
SaveDone(llm_process_tag, s) ==
    /\ files' = Put(files, s.path, json_dumps(s.thread))
    /\ ret' = [op |-> "save", tid |-> s.thread.thread_id, tag |-> llm_process_tag,
               kind |-> "saved", payload |-> s.thread, path |-> s.path]
    /\ owned' = Without(owned, s.path)
    /\ UNCHANGED <<clock, nextId, pc, loc, rets>>

\* save_thread called with the thread the caller holds
SaveThread(llm_process_tag) ==
    /\ ret.kind \in {"thread", "saved"}
    /\ nwrites < MaxWrites
    /\ nwrites' = nwrites + 1
    /\ SaveDone(llm_process_tag, save_thread(ret.payload, llm_process_tag, clock))

\* the effect of an append_message call whose outcome is a
AppendDone(thread_id, llm_process_tag, a) ==
    /\ IF a.kind # "message" THEN
           /\ ret' = [op |-> "append", tid |-> thread_id, tag |-> llm_process_tag] @@ a
           /\ UNCHANGED <<files, nwrites, nextId, owned>>
       ELSE
           /\ nwrites < MaxWrites
           /\ nwrites' = nwrites + 1
           /\ nextId' = nextId + 1
           /\ files' = Put(files, a.path, json_dumps(a.thread))
           /\ ret' = [op |-> "append", tid |-> thread_id, tag |-> llm_process_tag,
                      kind |-> "message", message |-> a.message,
                      src |-> a.src, path |-> a.path]
           /\ owned' = IF /\ a.path \in DOMAIN owned
                          /\ owned[a.path].tid = thread_id
                          /\ owned[a.path].tag = llm_process_tag
                       THEN [owned EXCEPT ![a.path].log = Append(@, a.message)]
                       ELSE Without(owned, a.path)
    /\ UNCHANGED <<clock, pc, loc, rets>>

AppendMessage(thread_id, role, llm_process_tag) ==
    /\ ret = Idle
    /\ AppendDone(thread_id, llm_process_tag,
                  append_message(files, thread_id, role, llm_process_tag, clock, nextId + 1))

Next ==
    \/ Tick
    \/ Return
    \/ \E title \in Titles, c \in Calls : CreateThread(title, c[1], c[2])
    \/ \E c \in Calls : LoadThread(c[1], c[2])
    \/ \E tag \in RawTags : SaveThread(tag)
    \/ \E c \in Calls, role \in Roles : AppendMessage(c[1], role, c[2])

Spec == Init /\ [][Next]_vars

----------------------------------------------------------------------------
(* Concurrent callers.  Nothing coordinates them: a call is a sequence of  *)
(* steps on the shared directory, and Path.write_text is a truncating open *)
(* followed by the write of the whole text.                                *)

Procs == {"p1", "p2"}
Other(p) == CHOOSE q \in Procs : q # p

ConcCalls == { <<T1, <<" ", "a", "-">> >> }
ConcTitles == {"t", "u"}

NoLoc == [op |-> "none"]
NoRet == [op |-> "none", kind |-> "none", raced |-> FALSE, at |-> 0]

InitConc ==
    /\ files = [p \in {} |-> EmptyText]
    /\ clock = 0
    /\ nwrites = 0
    /\ nextId = 0
    /\ ret = Idle
    /\ owned = NoOwner
    /\ pc = [p \in Procs |-> "idle"]
    /\ loc = [p \in Procs |-> NoLoc]
    /\ rets = [p \in Procs |-> NoRet]

\* calls that have not written yet
Pending == Cardinality({ p \in Procs : pc[p] # "idle" })

\* create_thread up to the existence check of path
CCreateChecked(p, title, tid, normalized_tag, path, racing) ==
    /\ IF Exists(files, path) THEN
           /\ rets' = [rets EXCEPT ![p] = [op |-> "create", kind |-> "FileExistsError",
                                           path |-> path, raced |-> FALSE, at |-> 0]]
           /\ UNCHANGED <<pc, loc>>
       ELSE
           /\ pc' = [pc EXCEPT ![p] = "create_checked"]
           /\ loc' = [r \in Procs |->
                        IF r = p THEN [op |-> "create", tid |-> tid, title |-> title,
                                       normalized_tag |-> normalized_tag,
                                       path |-> path, raced |-> racing]
                        ELSE IF racing THEN [loc[r] EXCEPT !.raced = TRUE]
                        ELSE loc[r]]
           /\ UNCHANGED rets
    /\ UNCHANGED <<files, clock, nwrites, nextId, ret, owned>>

CCreatePath(p, title, tid, normalized_tag, path) ==
    CCreateChecked(p, title, tid, normalized_tag, path,
                   pc[Other(p)] = "create_checked" /\ loc[Other(p)].path = path)

CCreateCheck(p, title, thread_id, llm_process_tag) ==
    /\ pc[p] = "idle"
    /\ nwrites + Pending < MaxWrites
    /\ CCreatePath(p, title, thread_id, _sanitize_llm_process_tag(llm_process_tag),
                   thread_path(thread_id, _sanitize_llm_process_tag(llm_process_tag)))

\* open(path, "x"): refuses a file that exists
CCreateOpen_Exclusive(p) ==
    /\ pc[p] = "create_checked"
    /\ IF Exists(files, loc[p].path) THEN
           /\ pc' = [pc EXCEPT ![p] = "idle"]
           /\ rets' = [rets EXCEPT ![p] = [op |-> "create", kind |-> "FileExistsError",
                                           path |-> loc[p].path, raced |-> loc[p].raced,
                                           at |-> 0]]
           /\ loc' = [loc EXCEPT ![p] = NoLoc]
           /\ UNCHANGED files
       ELSE
           /\ pc' = [pc EXCEPT ![p] = "create_writing"]
           /\ loc' = [loc EXCEPT ![p] = [payload |-> NewThread(loc[p].tid, loc[p].title,
                                                             loc[p].normalized_tag, clock)]
                                          @@ loc[p]]
           /\ files' = Put(files, loc[p].path, EmptyText)
           /\ UNCHANGED rets
    /\ UNCHANGED <<clock, nwrites, nextId, ret, owned>>

\* create_thread builds the payload and opens the file for writing
CCreateOpen(p) ==
    /\ pc[p] = "create_checked"
    /\ pc' = [pc EXCEPT ![p] = "create_writing"]
    /\ loc' = [loc EXCEPT ![p] = [payload |-> NewThread(loc[p].tid, loc[p].title,
                                                      loc[p].normalized_tag, clock)]
                                   @@ loc[p]]
    /\ files' = Put(files, loc[p].path, EmptyText)
    /\ UNCHANGED <<clock, nwrites, nextId, ret, owned, rets>>

\* create_thread writes the text and returns the payload
CCreateWrite(p) ==
    /\ pc[p] = "create_writing"
    /\ files' = Put(files, loc[p].path, json_dumps(loc[p].payload))
    /\ nwrites' = nwrites + 1
    /\ rets' = [rets EXCEPT ![p] = [op |-> "create", kind |-> "thread",
                                    payload |-> loc[p].payload, path |-> loc[p].path,
                                    raced |-> loc[p].raced, at |-> nwrites + 1]]
    /\ pc' = [pc EXCEPT ![p] = "idle"]
    /\ loc' = [loc EXCEPT ![p] = NoLoc]
    /\ UNCHANGED <<clock, nextId, ret, owned>>

\* load_thread
CLoad(p, thread_id, llm_process_tag) ==
    /\ pc[p] = "idle"
    /\ rets' = [rets EXCEPT ![p] = [op |-> "load", raced |-> FALSE, at |-> 0]
                                       @@ load_thread(files, thread_id, llm_process_tag)]
    /\ UNCHANGED <<files, clock, nwrites, nextId, ret, owned, pc, loc>>

\* append_message up to the return r of load_thread; path is where
\* save_thread will write
CAppendLoaded(p, role, llm_process_tag, r, path, racing) ==
    /\ pc' = [pc EXCEPT ![p] = "append_loaded"]
    /\ loc' = [x \in Procs |->
                 IF x = p THEN [op |-> "append", thread |-> r.payload,
                                src |-> r.src, path |-> path, role |-> role,
                                llm_process_tag |-> llm_process_tag,
                                raced |-> racing]
                 ELSE IF racing THEN [loc[x] EXCEPT !.raced = TRUE]
                 ELSE loc[x]]
    /\ UNCHANGED rets

CAppendTarget(p, role, llm_process_tag, r, path) ==
    CAppendLoaded(p, role, llm_process_tag, r, path,
                  /\ pc[Other(p)] = "append_loaded"
                  /\ loc[Other(p)].path = path
                  /\ loc[Other(p)].src = r.src)

CAppendReturned(p, role, llm_process_tag, r) ==
    /\ IF r.kind # "thread" THEN
           /\ rets' = [rets EXCEPT ![p] = [op |-> "append", raced |-> FALSE, at |-> 0] @@ r]
           /\ UNCHANGED <<pc, loc>>
       ELSE
           CAppendTarget(p, role, llm_process_tag, r,
                         save_thread(r.payload, llm_process_tag, clock).path)
    /\ UNCHANGED <<files, clock, nwrites, nextId, ret, owned>>

CAppendLoad(p, thread_id, role, llm_process_tag) ==
    /\ pc[p] = "idle"
    /\ nwrites + Pending < MaxWrites
    /\ CAppendReturned(p, role, llm_process_tag,
                       load_thread(files, thread_id, llm_process_tag))

\* append_message builds the message, save_thread opens the file for writing
CAppendOpened(p, message, s) ==
    /\ nextId' = nextId + 1
    /\ files' = Put(files, s.path, EmptyText)
    /\ loc' = [loc EXCEPT ![p] = [message |-> message, saved |-> s.thread] @@ loc[p]]
    /\ pc' = [pc EXCEPT ![p] = "append_writing"]
    /\ UNCHANGED <<clock, nwrites, ret, owned, rets>>

CAppendSave(p, message) ==
    CAppendOpened(p, message,
                  save_thread(AppendTo(loc[p].thread, message), loc[p].llm_process_tag, clock))

CAppendOpen(p) ==
    /\ pc[p] = "append_loaded"
    /\ CAppendSave(p, NewMessage(nextId + 1, clock, loc[p].role))

\* a save that first reads the messages now on disk
CAppendWrite_Merge(p) ==
    /\ pc[p] = "append_writing"
    /\ LET now == IF files[loc[p].path] = EmptyText THEN loc[p].thread.messages
                  ELSE files[loc[p].path][1].messages
           merged == [loc[p].saved EXCEPT !.messages = Append(now, loc[p].message)]
       IN files' = Put(files, loc[p].path, json_dumps(merged))
    /\ nwrites' = nwrites + 1
    /\ rets' = [rets EXCEPT ![p] = [op |-> "append", kind |-> "message",
                                    message |-> loc[p].message, path |-> loc[p].path,
                                    base |-> loc[p].thread.messages,
                                    raced |-> loc[p].raced, at |-> nwrites + 1]]
    /\ pc' = [pc EXCEPT ![p] = "idle"]
    /\ loc' = [loc EXCEPT ![p] = NoLoc]
    /\ UNCHANGED <<clock, nextId, ret, owned>>

\* save_thread writes the text, append_message returns the message
CAppendWrite(p) ==
    /\ pc[p] = "append_writing"
    /\ files' = Put(files, loc[p].path, json_dumps(loc[p].saved))
    /\ nwrites' = nwrites + 1
    /\ rets' = [rets EXCEPT ![p] = [op |-> "append", kind |-> "message",
                                    message |-> loc[p].message, path |-> loc[p].path,
                                    base |-> loc[p].thread.messages,
                                    raced |-> loc[p].raced, at |-> nwrites + 1]]
    /\ pc' = [pc EXCEPT ![p] = "idle"]
    /\ loc' = [loc EXCEPT ![p] = NoLoc]
    /\ UNCHANGED <<clock, nextId, ret, owned>>

NextConc ==
    \/ Tick
    \/ \E p \in Procs, title \in ConcTitles, c \in ConcCalls :
           CCreateCheck(p, title, c[1], c[2])
    \/ \E p \in Procs : CCreateOpen(p)
    \/ \E p \in Procs : CCreateWrite(p)
    \/ \E p \in Procs, c \in ConcCalls : CLoad(p, c[1], c[2])
    \/ \E p \in Procs, c \in ConcCalls, role \in Roles : CAppendLoad(p, c[1], role, c[2])
    \/ \E p \in Procs : CAppendOpen(p)
    \/ \E p \in Procs : CAppendWrite(p)

SpecConc == InitConc /\ [][NextConc]_vars

----------------------------------------------------------------------------
(* Listing a directory.  The directory holds, for some of four (thread id, *)
(* tag) pairs, the file of that name: a thread of that id and tag as the   *)
(* store writes it, an empty text as a cut write leaves it, or a text that *)
(* is no thread document.                                                  *)

ListKeys ==
    { <<T1, Empty>>, <<T1, <<"B">> >>, <<T2, <<"a">> >>, <<T2, <<"B">> >> }

\* the thread (tid, tag) last written at time u
ThreadAt(tid, tag, u) ==
    [NewThread(tid, "t", tag, 0) EXCEPT
         !.updated_at = u,
         !.messages = IF u = 0 THEN <<>> ELSE <<NewMessage(1, u, "user")>>]

ListTexts(k) ==
    {EmptyText, NotUtf8, NotObject}
        \cup { json_dumps(ThreadAt(k[1], k[2], u)) : u \in 0..MaxClock }

ListDirs ==
    UNION { { fs \in [{ _thread_filename(k[1], k[2]) : k \in K } ->
                        UNION { ListTexts(k) : k \in K }] :
                \A k \in K : fs[_thread_filename(k[1], k[2])] \in ListTexts(k) } :
            K \in SUBSET ListKeys }

InitList ==
    /\ files \in ListDirs
    /\ clock = MaxClock
    /\ nwrites = 0
    /\ nextId = 1
    /\ ret = Idle
    /\ owned = NoOwner
    /\ pc = [c \in {} |-> "idle"]
    /\ loc = [c \in {} |-> 0]
    /\ rets = [c \in {} |-> 0]

ListThreads(llm_process_tag) ==
    /\ ret = Idle
    /\ ret' = [op |-> "list", tag |-> llm_process_tag]
                  @@ list_threads(files, llm_process_tag)
    /\ UNCHANGED <<files, clock, nwrites, nextId, owned, pc, loc, rets>>

NextList ==
    \/ Return
    \/ \E tag \in RawTags : ListThreads(tag)

SpecList == InitList /\ [][NextList]_vars

----------------------------------------------------------------------------
(* The functions of strings, applied to the strings a caller can pass.     *)

TagChars == {" ", "-", "_", "a", "B"}
TagStrings == Strings(TagChars, MaxTagLen)

\* n times the character c
Rep(c, n) == [i \in 1..n |-> c]

\* references: a prefix, an id, a suffix
RefPrefixes ==
    { Empty, <<"B">>, <<"B", "_">>, <<"a", "_", "b", "_">>, <<"_">>, <<"_", "_">>,
      <<"-", "_">>, <<" ", "B", "_">> }

RefIds ==
    { Empty, T1,
      Rep("a", HexLen),
      Rep("A", HexLen),
      [i \in 1..HexLen |-> IF i % 2 = 1 THEN "B" ELSE "0"],
      Rep("a", HexLen - 1),
      Rep("a", HexLen + 1),
      Rep("a", HexLen - 1) \o <<"g">> }

RefSuffixes ==
    { Empty, JsonExt, JsonExt \o JsonExt, <<NL>> \o JsonExt, <<" ">>,
      JsonExt \o <<" ">> }

ThreadRefs ==
    { pre \o id \o suf : pre \in RefPrefixes, id \in RefIds, suf \in RefSuffixes }

SanitizeTag(llm_process_tag) ==
    /\ ret = Idle
    /\ ret' = [op |-> "sanitize", kind |-> "str", arg |-> llm_process_tag,
               out |-> _sanitize_llm_process_tag(llm_process_tag)]
    /\ UNCHANGED <<files, clock, nwrites, nextId, owned, pc, loc, rets>>

ResolveThreadIdentifier(thread_ref) ==
    /\ ret = Idle
    /\ ret' = [op |-> "resolve", kind |-> "str", arg |-> thread_ref,
               out |-> resolve_thread_identifier(thread_ref)]
    /\ UNCHANGED <<files, clock, nwrites, nextId, owned, pc, loc, rets>>

NextStr ==
    \/ Return
    \/ \E tag \in TagStrings : SanitizeTag(tag)
    \/ \E ref \in ThreadRefs : ResolveThreadIdentifier(ref)

SpecStr == Init /\ [][NextStr]_vars

----------------------------------------------------------------------------
(* Context of a thread.  The chats directory is empty or holds one file,   *)
(* <id>.json or B_<id>.json: an empty text, or the thread of that id and   *)
(* tag with up to MaxMsgs messages.                                        *)

CtxRoles == {"user", "assistant"}
CtxContents == {Empty, <<"p">>, <<"q">>}

NoMetadata == MdDict(<<>>)

\* a file under the project root, then a list: a padded absolute path, a
\* directory, a name of no file, a string that is no path, a number
SomeMetadata ==
    MdDict(<< MdStr(<<"f", ".", "t", "x", "t">>),
              MdList(<< MdStr(<<" ">> \o Join(Cwd, <<"g", ".", "m", "d">>)),
                        MdStr(<<"d", ".", "t", "x", "t">>),
                        MdStr(<<"h", ".", "t", "x", "t">>),
                        MdStr(<<"n", "o", " ", "p", "a", "t", "h">>),
                        [t |-> "int"] >>) >>)

CtxMetadata == {NoMetadata, SomeMetadata}

\* a message as append_message stores it, with its content and metadata
CtxMessages ==
    { NewMessage(1, 0, role) @@ [content |-> content, metadata |-> metadata] :
          role \in CtxRoles, content \in CtxContents, metadata \in CtxMetadata }

CtxThreads(tag) ==
    { [NewThread(T1, "t", tag, 0) EXCEPT !.messages = messages] :
          messages \in Strings(CtxMessages, MaxMsgs) }

CtxDirs ==
    { [p \in {} |-> EmptyText] }
        \cup UNION { { _thread_filename(T1, tag) :> text :
                          text \in {EmptyText} \cup
                                   { json_dumps(thread) : thread \in CtxThreads(tag) } } :
                     tag \in {Empty, <<"B">>} }

CtxRefs == { Empty, T1, <<" ">> \o T1 \o JsonExt, <<"B", "_">> \o T1 }

OnMissing == {"raise", "warn", "ignore"}

InitCtx ==
    /\ files \in CtxDirs
    /\ clock = 0
    /\ nwrites = 0
    /\ nextId = 1
    /\ ret = Idle
    /\ owned = NoOwner
    /\ pc = [c \in {} |-> "idle"]
    /\ loc = [c \in {} |-> 0]
    /\ rets = [c \in {} |-> 0]

BuildThreadContextText(thread_ref, include_referenced_files, max_chars_per_file, on_missing) ==
    /\ ret = Idle
    /\ ret' = [op |-> "context", ref |-> thread_ref,
               include |-> include_referenced_files,
               max_chars |-> max_chars_per_file, on_missing |-> on_missing]
                  @@ build_thread_context_text(files, thread_ref,
                         include_referenced_files, max_chars_per_file, on_missing)
    /\ UNCHANGED <<files, clock, nwrites, nextId, owned, pc, loc, rets>>

NextCtx ==
    \/ Return
    \/ \E ref \in CtxRefs, include \in BOOLEAN, n \in (-1)..MaxChars,
          on_missing \in OnMissing :
           BuildThreadContextText(ref, include, n, on_missing)

SpecCtx == InitCtx /\ [][NextCtx]_vars

----------------------------------------------------------------------------------------------------------------------------------------
(* Metadata walk and path extraction on given metadata: ret holds what    *)
(* the function returned                                                   *)

\* metadata strings: a prefix, a stem, a suffix
WalkPrefixes ==
    { Empty, <<"/">>, <<".", "/">>, <<".", ".", "/">>, <<"~", "/">>,
      <<"\\", "a", "/">>, <<" ">> }

WalkStems ==
    { <<"n">>, <<"n", " ", "n">>,
      Rep("a", MaxPathChars - 4), Rep("a", MaxPathChars - 3) }

WalkSuffixes ==
    PathExtensions
        \cup { Empty, <<".", "T", "X", "T">>, <<".", "m">>, <<".", "m", "d", NL>> }

WalkTexts ==
    { pre \o stem \o suf :
          pre \in WalkPrefixes, stem \in WalkStems, suf \in WalkSuffixes }

\* a string alone, and the same string inside a list inside a dict
WalkMetadatas ==
    { MdStr(text) : text \in WalkTexts }
        \cup { MdDict(<< [t |-> "int"], MdList(<< MdStr(text) >>) >>) :
                  text \in WalkTexts }

\* strings of message metadata: one file under two names, files found
\* through the current directory, through an absolute path and through the
\* home directory, a directory, a name of no file, a name "~k.md"
PathTexts ==
    { <<"f", ".", "t", "x", "t">>,
      <<".", "/", "f", ".", "t", "x", "t">>,
      <<"g", ".", "m", "d">>,
      <<" ">> \o Join(Cwd, <<"g", ".", "m", "d">>),
      <<"d", ".", "t", "x", "t">>,
      <<"h", ".", "t", "x", "t">>,
      <<"~", "/", "k", ".", "m", "d">>,
      <<"~", "k", ".", "m", "d">> }

\* threads holding up to three of the strings: in one message, as a dict
\* entry and a list of two, or in two messages, the second one nested
PathThreads ==
    { [messages |-> << [metadata |->
                          MdDict(<< MdStr(a), MdList(<< MdStr(b), MdStr(c) >>) >>)] >>] :
          a \in PathTexts, b \in PathTexts, c \in PathTexts }
        \cup { [messages |-> << [metadata |-> MdList(<< MdStr(a) >>)],
                               [metadata |-> MdDict(<< MdDict(<< MdStr(b) >>) >>)] >>] :
                  a \in PathTexts, b \in PathTexts }

WalkMetadataForPaths(metadata) ==
    /\ ret = Idle
    /\ ret' = [op |-> "walk", kind |-> "set", metadata |-> metadata,
               out |-> _walk_metadata_for_paths(metadata)]
    /\ UNCHANGED <<files, clock, nwrites, nextId, owned, pc, loc, rets>>

ExtractReferencedFilePaths(thread_payload) ==
    /\ ret = Idle
    /\ ret' = [op |-> "extract", thread_payload |-> thread_payload]
                  @@ extract_result(thread_payload, ProjectRoot)
    /\ UNCHANGED <<files, clock, nwrites, nextId, owned, pc, loc, rets>>

NextPaths ==
    \/ Return
    \/ \E metadata \in WalkMetadatas : WalkMetadataForPaths(metadata)
    \/ \E thread_payload \in PathThreads : ExtractReferencedFilePaths(thread_payload)

SpecPaths == Init /\ [][NextPaths]_vars

----------------------------------------------------------------------------
(* Thread lookup on a given chats directory: threads with 32-hex ids next  *)
(* to files that are no thread documents                                   *)

H1 == Rep("a", HexLen)
H2 == Rep("b", HexLen)

\* a file, an unreadable file, a directory and a name of no file
FindMetadata ==
    MdList(<< MdStr(<<"f", ".", "t", "x", "t">>),
              MdStr(<<"u", ".", "t", "x", "t">>),
              MdStr(<<"d", ".", "t", "x", "t">>),
              MdStr(<<"h", ".", "t", "x", "t">>) >>)

FindThreads(tid, tag) ==
    { [NewThread(tid, "t", tag, 0) EXCEPT !.messages = messages] :
          messages \in { <<>>,
                         << NewMessage(1, 0, "user")
                                @@ [content |-> <<"p">>, metadata |-> FindMetadata] >> } }

\* (thread id, tag) of the files a directory may hold
FindKeys == { <<H1, Empty>>, <<H1, <<"B">> >>, <<H2, <<"B">> >> }

FindTexts(key) ==
    { EmptyText, NotUtf8, NotObject }
        \cup { json_dumps(thread) : thread \in FindThreads(key[1], key[2]) }

FindDirs ==
    UNION { { [p \in { _thread_filename(key[1], key[2]) : key \in keys } |->
                  texts[CHOOSE key \in keys : _thread_filename(key[1], key[2]) = p]] :
              texts \in { t \in [keys -> UNION { FindTexts(key) : key \in keys }] :
                              \A key \in keys : t[key] \in FindTexts(key) } } :
            keys \in SUBSET FindKeys }

\* references: none, the id, a file name, a tagged id with and without a file,
\* upper case, the id of no thread
FindRefs ==
    { Empty, <<" ">>, H1, <<" ">> \o H1 \o JsonExt, <<"B", "_">> \o H1,
      <<"A", "_">> \o H1, <<"A", "_">> \o Rep("A", HexLen) \o JsonExt,
      H2, Rep("A", HexLen), T1 }

InitFind ==
    /\ files \in FindDirs
    /\ clock = 0
    /\ nwrites = 0
    /\ nextId = 1
    /\ ret = Idle
    /\ owned = NoOwner
    /\ pc = [c \in {} |-> "idle"]
    /\ loc = [c \in {} |-> 0]
    /\ rets = [c \in {} |-> 0]

FindThreadFile(thread_ref) ==
    /\ ret = Idle
    /\ ret' = [op |-> "find", ref |-> thread_ref] @@ find_thread_file(files, thread_ref)
    /\ UNCHANGED <<files, clock, nwrites, nextId, owned, pc, loc, rets>>

BuildThreadContextBundle(thread_ref, include_referenced_files, max_chars_per_file) ==
    /\ ret = Idle
    /\ ret' = [op |-> "bundle", ref |-> thread_ref,
               include |-> include_referenced_files, max_chars |-> max_chars_per_file]
                  @@ build_thread_context_bundle(files, thread_ref,
                         include_referenced_files, max_chars_per_file)
    /\ UNCHANGED <<files, clock, nwrites, nextId, owned, pc, loc, rets>>

NextFind ==
    \/ Return
    \/ \E ref \in FindRefs : FindThreadFile(ref)
    \/ \E ref \in FindRefs, include \in BOOLEAN, n \in 0..MaxChars :
           BuildThreadContextBundle(ref, include, n)

SpecFind == InitFind /\ [][NextFind]_vars

----------------------------------------------------------------------------
(* The tagged store called the way the legacy store is called: no process *)
(* tag, a chats directory that starts empty.  A caller may pass any        *)
(* thread_id, one with an underscore too.                                  *)

T3 == <<"a", "_">> \o T1

LegacyIds == {T1, T2, T3}

NextLegacy ==
    \/ Tick
    \/ Return
    \/ \E title \in Titles, tid \in LegacyIds : CreateThread(title, tid, Empty)
    \/ \E tid \in LegacyIds : LoadThread(tid, Empty)
    \/ \E tid \in LegacyIds, role \in Roles : AppendMessage(tid, role, Empty)
    \/ ListThreads(Empty)

SpecLegacy == Init /\ [][NextLegacy]_vars

----------------
(* Properties of the sequential store *)

Legacy(tid) == _thread_filename(tid, Empty)
Canonical(tid, tag) == _thread_filename(tid, tag)
Doc(path) == files[path][1]
MessageIds(path) == { Doc(path).messages[i].message_id : i \in 1..Len(Doc(path).messages) }

\* the file create_thread made for the arguments of the call in ret, still
\* written by nobody else
OwnedByCall(f) ==
    /\ f \in DOMAIN owned
    /\ owned[f].tid = ret.tid
    /\ owned[f].tag = ret.tag

\* C1: after create_thread(thread_id, tag) succeeded, load_thread with the same
\* thread_id and tag returns the payload create_thread wrote, whatever other
\* files of that thread id are in the directory.
C1_FilenameRoundTrip ==
    \A f \in DOMAIN owned :
        (ret.op = "load" /\ OwnedByCall(f) /\ owned[f].log = <<>>) =>
            /\ ret.kind = "thread"
            /\ ret.src = f
            /\ ret.payload = owned[f].payload

\* a tag that sanitizes to the empty string, loaded back while two tagged
\* files of the same thread id exist
C1_Witness ==
    /\ ret.op = "load"
    /\ ret.tag # Empty
    /\ _sanitize_llm_process_tag(ret.tag) = Empty
    /\ \E f \in DOMAIN owned : OwnedByCall(f) /\ owned[f].log = <<>> /\ ret.src = f
    /\ Cardinality(Glob(files, ret.tid)) = 2

\* C2: a thread created with (thread_id, tag) and then written only by
\* append_message calls with the same thread_id and tag holds, and loads as,
\* exactly the messages those calls returned, in call order, and its persisted
\* updated_at never decreases from one call to the next.
C2_InOrder ==
    \A f \in DOMAIN owned :
        /\ Doc(f).messages = owned[f].log
        /\ (ret.op = "load" /\ OwnedByCall(f)) =>
               (ret.kind = "thread" /\ ret.payload.messages = owned[f].log)

C2_UpdatedAtStep ==
    \A f \in DOMAIN owned \cap DOMAIN owned' :
        files'[f][1].updated_at >= files[f][1].updated_at

C2_AppendOnlyOrdering == [] C2_InOrder /\ [][C2_UpdatedAtStep]_vars

C2_Witness ==
    /\ ret.op = "load"
    /\ \E f \in DOMAIN owned :
           /\ OwnedByCall(f)
           /\ Len(owned[f].log) = 2
           /\ ret.payload.messages = owned[f].log
           /\ Doc(f).updated_at > owned[f].payload.updated_at

\* C3: two files of the same thread id under different tags never share a
\* message.
C3_TagsNeverMerge ==
    \A f, g \in DOMAIN files :
        (f # g /\ Doc(f).thread_id = Doc(g).thread_id) =>
            MessageIds(f) \cap MessageIds(g) = {}

\* C5: create_thread raises FileExistsError exactly when a file is at the
\* canonical path of (sanitized tag, thread id), and then changes no file;
\* otherwise it writes that one path and nothing else, whatever other files of
\* the thread id exist.
C5_CreateStep ==
    (ret = Idle /\ ret'.op = "create") =>
        LET path == Canonical(ret'.tid, ret'.tag)
        IN /\ (ret'.kind = "FileExistsError") <=> Exists(files, path)
           /\ (ret'.kind = "FileExistsError") => files' = files
           /\ (ret'.kind # "FileExistsError") =>
                  /\ ret'.kind = "thread"
                  /\ files' = Put(files, path, json_dumps(ret'.payload))

C5_CreateAlreadyExists == [][C5_CreateStep]_vars

\* a create refused although the same id is also stored untagged
C5_Witness ==
    /\ ret.op = "create"
    /\ ret.kind = "FileExistsError"
    /\ _sanitize_llm_process_tag(ret.tag) # Empty
    /\ Exists(files, Legacy(ret.tid))
    /\ Exists(files, Canonical(ret.tid, ret.tag))

\* C8: when the untagged file is the only file of a thread id, load_thread
\* with a tag hint that sanitizes to a non-empty token returns the thread
\* stored in <id>.json (its empty stored tag filled in memory with the
\* sanitized hint) instead of failing.
OnlyLegacy(tid) == Exists(files, Legacy(tid)) /\ Glob(files, tid) = {}

C8_LegacyFallback ==
    (/\ ret.op = "load"
     /\ _sanitize_llm_process_tag(ret.tag) # Empty
     /\ OnlyLegacy(ret.tid)) =>
        /\ ret.kind = "thread"
        /\ ret.src = Legacy(ret.tid)
        /\ ret.payload = [Doc(Legacy(ret.tid)) EXCEPT
                              !.llm_process_tag = _sanitize_llm_process_tag(ret.tag)]

C8_Witness ==
    /\ ret.op = "load"
    /\ _sanitize_llm_process_tag(ret.tag) # Empty
    /\ OnlyLegacy(ret.tid)
    /\ ret.kind = "thread"
    /\ Len(ret.payload.messages) > 0

\* C9: load_thread returns the first existing file among the canonical file of
\* the sanitized requested tag, then <id>.json, then the files matching
\* *_<id>.json in lexicographic order.
Least(S) == CHOOSE m \in S : \A y \in S : ~StrLess(y, m)

C9_LoadPriority ==
    ret.op = "load" =>
        LET canon == Canonical(ret.tid, ret.tag)
            legacy == Legacy(ret.tid)
            tagged == Glob(files, ret.tid)
        IN IF Exists(files, canon) THEN ret.kind = "thread" /\ ret.src = canon
           ELSE IF Exists(files, legacy) THEN ret.kind = "thread" /\ ret.src = legacy
           ELSE IF tagged # {} THEN ret.kind = "thread" /\ ret.src = Least(tagged)
           ELSE ret.kind = "FileNotFoundError"

\* neither the requested nor the untagged file exists, two tagged ones do
C9_Witness ==
    /\ ret.op = "load"
    /\ ~Exists(files, Canonical(ret.tid, ret.tag))
    /\ ~Exists(files, Legacy(ret.tid))
    /\ Cardinality(Glob(files, ret.tid)) = 2
    /\ ret.src = Least(Glob(files, ret.tid))
    /\ Cardinality(DOMAIN files) = 3

\* C10: load_thread raises FileNotFoundError exactly when no file of the thread
\* id is at any candidate path; the error lists every path tried: the tagged
\* canonical path and the untagged path when the hint sanitizes to a non-empty
\* token, otherwise the untagged path.
C10_NotFound ==
    ret.op = "load" =>
        LET canon == Canonical(ret.tid, ret.tag)
            legacy == Legacy(ret.tid)
            none == /\ ~Exists(files, canon)
                    /\ ~Exists(files, legacy)
                    /\ Glob(files, ret.tid) = {}
        IN /\ (ret.kind = "FileNotFoundError") <=> none
           /\ (ret.kind = "FileNotFoundError") =>
                  IF _sanitize_llm_process_tag(ret.tag) # Empty
                  THEN ret.searched = <<canon, legacy>> /\ Len(ret.searched) >= 2
                  ELSE ret.searched = <<legacy>>

C10_Witness ==
    /\ ret.op = "load"
    /\ ret.kind = "FileNotFoundError"
    /\ _sanitize_llm_process_tag(ret.tag) # Empty
    /\ Len(ret.searched) = 2
    /\ files # <<>>

\* C11: append_message on a thread id with no file at any candidate path
\* raises FileNotFoundError to the caller, creates no file and changes no file.
NoCandidate(tid, tag) ==
    /\ ~Exists(files, Canonical(tid, tag))
    /\ ~Exists(files, Legacy(tid))
    /\ Glob(files, tid) = {}

C11_AppendStep ==
    (ret = Idle /\ ret'.op = "append" /\ NoCandidate(ret'.tid, ret'.tag)) =>
        /\ ret'.kind = "FileNotFoundError"
        /\ files' = files

C11_AppendNotFound == [][C11_AppendStep]_vars

\* an append refused while files of another thread id exist
C11_Witness ==
    /\ ret.op = "append"
    /\ ret.kind = "FileNotFoundError"
    /\ DOMAIN files # {}
    /\ NoCandidate(ret.tid, ret.tag)

----------------------------------------------------------------------------
(* Properties of list_threads *)

IsThread(text) == text \notin {EmptyText, NotUtf8, NotObject}

\* every file is a thread document or no JSON text at all
Parseable == \A p \in DOMAIN files : files[p] \notin {NotUtf8, NotObject}

\* out holds exactly one summary per file of S, newest first, summaries of
\* equal updated_at in lexicographic filename order
ListsNewestFirst(out, S) ==
    /\ Len(out) = Cardinality(S)
    /\ { out[i].file : i \in 1..Len(out) } = S
    /\ \A i \in 1..Len(out) : out[i] = ThreadSummary(out[i].file, Doc(out[i].file))
    /\ \A i, j \in 1..Len(out) :
           i < j => \/ out[i].updated_at > out[j].updated_at
                    \/ /\ out[i].updated_at = out[j].updated_at
                       /\ StrLess(out[i].file, out[j].file)

StoredTag(p) == _sanitize_llm_process_tag(Doc(p).llm_process_tag)

C13_CorruptFileSkipped ==
    ret.op = "list" =>
        /\ ret.kind = "list"
        /\ \A p \in DOMAIN files :
               (/\ IsThread(files[p])
                /\ _sanitize_llm_process_tag(ret.tag) \in {Empty, StoredTag(p)}) =>
                   \E i \in 1..Len(ret.out) : ret.out[i].file = p

----------------------------------------------------------------------------
(* Properties of the functions of strings *)

\* C14: sanitizing a sanitized tag changes nothing.
C14_SanitizeIdempotent ==
    ret.op = "sanitize" => _sanitize_llm_process_tag(ret.out) = ret.out

\* a padded tag with symbols inside, sanitized to a token unlike it
C14_Witness ==
    /\ ret.op = "sanitize"
    /\ ret.arg # Empty
    /\ Head(ret.arg) = " "
    /\ InSeq("-", ret.arg)
    /\ Len(ret.out) = 3
    /\ _sanitize_llm_process_tag(ret.out) = ret.out

\* C15: a sanitized tag is empty, or made of characters of [A-Za-z0-9_] only,
\* with no underscore first or last and no two underscores in a row.
C15_SanitizedShape ==
    ret.op = "sanitize" =>
        \/ ret.out = Empty
        \/ /\ \A i \in 1..Len(ret.out) : ret.out[i] \in WordChars
           /\ ret.out[1] # "_"
           /\ ret.out[Len(ret.out)] # "_"
           /\ \A i \in 1..(Len(ret.out) - 1) :
                  ~(ret.out[i] = "_" /\ ret.out[i + 1] = "_")

\* C16 as stated: one trailing .json is stripped, then the lower-cased id is
\* returned when the rest is <tag>_<32 hex digits>, and otherwise the
\* reference is returned as it was given.
C16_ResolveOrUnchanged ==
    ret.op = "resolve" =>
        /\ ret.kind = "str"
        /\ IF TaggedId(DropJsonExt(ret.arg))
           THEN ret.out = LowerStr(LastChars(DropJsonExt(ret.arg), HexLen))
           ELSE ret.out = ret.arg

\* the reference without the white space around it and without one trailing
\* .json
RefStem(thread_ref) == DropJsonExt(Strip(thread_ref, WhiteSpace))

\* s without the newline that ends it, if one does
DropNewline(s) ==
    IF s # Empty /\ s[Len(s)] = NL THEN SubSeq(s, 1, Len(s) - 1) ELSE s

\* C16, amended: resolve_thread_identifier never raises; it strips the white
\* space around the reference and then one trailing .json; when what is left
\* is <tag>_<32 hex digits>, alone or followed by one newline, it returns
\* the 32 digits lower-cased, and otherwise it returns what is left (the
\* reference stripped, not the reference as given).
C16_ResolveThreadIdentifier ==
    ret.op = "resolve" =>
        /\ ret.kind = "str"
        /\ IF TaggedId(DropNewline(RefStem(ret.arg)))
           THEN /\ Len(ret.out) = HexLen
                /\ \A i \in 1..HexLen :
                       /\ ret.out[i] \in HexChars
                       /\ ret.out[i] = Lower(DropNewline(RefStem(ret.arg))
                                                [Len(DropNewline(RefStem(ret.arg))) - HexLen + i])
                       /\ Lower(ret.out[i]) = ret.out[i]
           ELSE ret.out = RefStem(ret.arg)

\* an upper-case id under a tag, with .json, resolved to its lower-case form
C16_Witness ==
    /\ ret.op = "resolve"
    /\ EndsWith(ret.arg, JsonExt)
    /\ TaggedId(RefStem(ret.arg))
    /\ ret.out = Rep("a", HexLen)
    /\ LastChars(RefStem(ret.arg), HexLen) = Rep("A", HexLen)

----------------------------------------------------------------------------
(* Properties of the context assembler *)

\* the call in ret returned the context of a thread
HasBundle == ret.op = "context" /\ ret.kind = "result" /\ ret.context_bundle # NoBundle

\* the content of the last message of the role, empty when there is none
RECURSIVE LastContent(_, _)
LastContent(messages, role) ==
    IF messages = <<>> THEN Empty
    ELSE IF messages[Len(messages)].role = role THEN messages[Len(messages)].content
    ELSE LastContent(SubSeq(messages, 1, Len(messages) - 1), role)

\* C17: latest_user_message is the content of the last message of role
\* "user" and latest_assistant_message that of the last message of role
\* "assistant", whatever the contents, empty ones included.
C17_LatestMessages ==
    HasBundle =>
        /\ ret.context_bundle.latest_user_message =
               LastContent(ret.context_bundle.thread_payload.messages, "user")
        /\ ret.context_bundle.latest_assistant_message =
               LastContent(ret.context_bundle.thread_payload.messages, "assistant")

Sep == <<NL, NL>>

\* C18: context_text is the latest user message, then the latest assistant
\* message, then one "FILE: <path>\n<excerpt>" block per entry of
\* referenced_file_contents in the order of the entries, joined by blank
\* lines and stripped of white space at both ends, whichever of the two
\* messages is the later one in the thread.
C18_FixedOrder ==
    HasBundle =>
        LET b == ret.context_bundle
            blocks == FileBlocks(b.referenced_file_contents)
        IN /\ Len(blocks) = Len(b.referenced_file_contents)
           /\ \A i \in 1..Len(blocks) :
                  blocks[i] = <<"F", "I", "L", "E", ":", " ">>
                                  \o b.referenced_file_contents[i].path \o <<NL>>
                                  \o b.referenced_file_contents[i].text
           /\ ret.context_text =
                  Strip(b.latest_user_message \o Sep \o b.latest_assistant_message
                            \o Sep \o JoinStr(blocks, Sep), WhiteSpace)
           /\ (b.latest_user_message # Empty /\ b.latest_assistant_message # Empty) =>
                  StartsWith(ret.context_text,
                             b.latest_user_message \o Sep \o b.latest_assistant_message)

\* the user message is the later one, and two files are quoted
C18_Witness ==
    /\ HasBundle
    /\ ret.context_bundle.n_messages = 2
    /\ ret.context_bundle.thread_payload.messages[1].role = "assistant"
    /\ ret.context_bundle.thread_payload.messages[2].role = "user"
    /\ ret.context_bundle.latest_assistant_message = <<"q">>
    /\ ret.context_bundle.latest_user_message = <<"p">>
    /\ Len(ret.context_bundle.referenced_file_contents) = 2
    /\ StartsWith(ret.context_text, <<"p", NL, NL, "q", NL, NL, "F", "I", "L", "E">>)

\* C19: for a reference that is not blank and whose thread cannot be loaded
\* (no file matches, or the file found does not parse),
\* build_thread_context_text raises with on_missing = "raise" and otherwise
\* returns an empty context_text, no bundle and the error message.
C19_MissingThread ==
    (/\ ret.op = "context"
     /\ Strip(ret.ref, WhiteSpace) # Empty
     /\ load_thread_by_id(files, Strip(ret.ref, WhiteSpace)).kind # "thread") =>
        IF ret.on_missing = "raise"
        THEN ret.kind \in {"FileNotFoundError", "JSONDecodeError"}
        ELSE /\ ret.kind = "result"
             /\ ret.context_text = Empty
             /\ ret.context_bundle = NoBundle
             /\ ret.context_error # Empty

Min(a, b) == IF a < b THEN a ELSE b

\* C20 as stated: every excerpt has length min(file length, max_chars_per_file),
\* for every max_chars_per_file.
C20_BoundedExcerpt_AnyLimit ==
    HasBundle =>
        \A i \in 1..Len(ret.context_bundle.referenced_file_contents) :
            LET item == ret.context_bundle.referenced_file_contents[i]
            IN Len(item.text) = Min(Len(Disk[item.path].text), ret.max_chars)

\* C20, amended: for max_chars_per_file >= 0 every excerpt is the first
\* min(file length, max_chars_per_file) characters of its file, so exactly
\* max_chars_per_file characters of a longer file; a negative
\* max_chars_per_file cuts that many characters off the end of the file
\* instead.
C20_BoundedExcerpt ==
    HasBundle =>
        \A i \in 1..Len(ret.context_bundle.referenced_file_contents) :
            LET item == ret.context_bundle.referenced_file_contents[i]
                whole == Disk[item.path].text
            IN /\ StartsWith(whole, item.text)
               /\ ret.max_chars >= 0 => Len(item.text) = Min(Len(whole), ret.max_chars)
               /\ (ret.max_chars >= 0 /\ Len(whole) > ret.max_chars) =>
                      Len(item.text) = ret.max_chars
               /\ ret.max_chars < 0 =>
                      Len(item.text) = IF Len(whole) + ret.max_chars > 0
                                       THEN Len(whole) + ret.max_chars ELSE 0

\* a file of three characters quoted under a limit of two
C20_Witness ==
    /\ HasBundle
    /\ ret.max_chars = 2
    /\ \E i \in 1..Len(ret.context_bundle.referenced_file_contents) :
           LET item == ret.context_bundle.referenced_file_contents[i]
           IN Len(Disk[item.path].text) = 3 /\ Len(item.text) = 2

\* block is in text, followed by the end of text or by a blank line
HasBlock(text, block) ==
    \E k \in 1..Len(text) :
        /\ k + Len(block) - 1 <= Len(text)
        /\ SubSeq(text, k, k + Len(block) - 1) = block
        /\ \/ k + Len(block) - 1 = Len(text)
           \/ /\ k + Len(block) + 1 <= Len(text)
              /\ SubSeq(text, k + Len(block), k + Len(block) + 1) = Sep

\* C21: for every referenced file longer than max_chars_per_file,
\* context_text holds "FILE: <path>", a newline and the first
\* max_chars_per_file characters of the file, no more and no fewer, whatever
\* these characters are.
C21_FileBlockBody ==
    HasBundle =>
        \A i \in 1..Len(ret.context_bundle.referenced_file_contents) :
            LET path == ret.context_bundle.referenced_file_contents[i].path
                whole == Disk[path].text
            IN (ret.max_chars >= 0 /\ Len(whole) > ret.max_chars) =>
                   HasBlock(ret.context_text,
                            <<"F", "I", "L", "E", ":", " ">> \o path \o <<NL>>
                                \o SubSeq(whole, 1, ret.max_chars))

\* the test of a metadata string as the specification words it
StartsAsStated(text) ==
    \E prefix \in { <<"/">>, <<".", "/">>, <<".", ".", "/">>, <<"~", "/">> } :
        StartsWith(text, prefix)

\* C22: a metadata string is a path candidate exactly when it has at most
\* 400 characters, holds no whitespace and no newline, and starts with one of
\* "/", "./", "../", "~/" or ends, in any case, with one of the eight
\* extensions.
C22_PathCandidate ==
    (ret.op = "walk" /\ ret.metadata.t = "str") =>
        LET text == ret.metadata.v
        IN (text \in ret.out) <=>
               /\ Len(text) <= MaxPathChars
               /\ \A i \in 1..Len(text) : text[i] \notin WhiteSpace
               /\ StartsAsStated(text) \/ EndsLikeFile(text)

\* C23: extract_referenced_file_paths returns without error a list of
\* absolute paths that exist on disk, no path twice; each candidate is
\* resolved against project_root first and as given second, the first
\* resolution that exists is kept and a candidate with none is dropped.
C23_ExistingPaths ==
    ret.op = "extract" =>
        /\ ret.kind = "paths"
        /\ \A i \in 1..Len(ret.paths) :
               /\ StartsWith(ret.paths[i], <<"/">>)
               /\ ret.paths[i] \in DOMAIN Disk
               /\ \A j \in 1..Len(ret.paths) : ret.paths[j] = ret.paths[i] => j = i

\* the resolution extract_referenced_file_paths keeps for a raw string, <<>>
\* when it keeps none
KeptFor(raw) ==
    LET OnDisk(candidate) == Resolved(candidate) \in DOMAIN Disk
        found == SelectSeq(_collect_path_candidates(raw, ProjectRoot), OnDisk)
    IN IF found = <<>> THEN <<>> ELSE Resolved(found[1])

\* the place, among the sorted raw strings, of the first one kept as path
FirstRaw(raws, path) ==
    CHOOSE k \in 1..Len(raws) :
        /\ KeptFor(raws[k]) = path
        /\ \A m \in 1..(k - 1) : KeptFor(raws[m]) # path

\* C24: the list extract_referenced_file_paths returns depends on the set of
\* candidate strings only, not on where the metadata holds them, and its
\* order is that of the sorted candidate strings, a path standing where the
\* first string that resolves to it stands.
C24_Deterministic ==
    ret.op = "extract" =>
        /\ \A other \in PathThreads :
               raw_values(other) = raw_values(ret.thread_payload) =>
                   /\ extract_result(other, ProjectRoot).kind = ret.kind
                   /\ ret.kind = "paths" =>
                          extract_result(other, ProjectRoot).paths = ret.paths
        /\ ret.kind = "paths" =>
               \A i \in 1..Len(ret.paths), j \in 1..Len(ret.paths) :
                   i < j =>
                       FirstRaw(Sorted(raw_values(ret.thread_payload)), ret.paths[i])
                           < FirstRaw(Sorted(raw_values(ret.thread_payload)), ret.paths[j])

\* g.md is met first and f.txt second, under two names; the list has f.txt
\* first, once
C24_Witness ==
    /\ ret.op = "extract"
    /\ ret.kind = "paths"
    /\ ret.thread_payload.messages[1].metadata.t = "dict"
    /\ ret.thread_payload.messages[1].metadata.v[1].v = <<"g", ".", "m", "d">>
    /\ ret.thread_payload.messages[1].metadata.v[2].v[1].v = <<"f", ".", "t", "x", "t">>
    /\ ret.thread_payload.messages[1].metadata.v[2].v[2].v = <<".", "/", "f", ".", "t", "x", "t">>
    /\ ret.paths = << Join(ProjectRoot, <<"f", ".", "t", "x", "t">>),
                      Join(Cwd, <<"g", ".", "m", "d">>) >>

\* the file named after the reference
ByName(thread_ref) == RefStem(thread_ref) \o JsonExt

\* the thread documents whose thread_id is the normalized reference
Matching(thread_ref) ==
    { p \in DOMAIN files :
          /\ IsThread(files[p])
          /\ Doc(p).thread_id = resolve_thread_identifier(thread_ref) }

\* the reference has a thread file of its own, and the file parses: the file
\* named after it, or, when there is none, a file holding its thread id
OwnFileParses(thread_ref) ==
    /\ Strip(thread_ref, WhiteSpace) # Empty
    /\ IF Exists(files, ByName(thread_ref)) THEN IsThread(files[ByName(thread_ref)])
       ELSE Matching(thread_ref) # {}

\* C25: for a reference whose own thread file exists and parses,
\* build_thread_context_bundle returns a bundle, whatever the referenced
\* files are (missing, unreadable, a directory) and whatever the other files
\* of the chats directory hold (invalid JSON, bytes that are not UTF-8, JSON
\* that is no object).
C25_EnrichmentAbsorbed ==
    (ret.op = "bundle" /\ OwnFileParses(ret.ref)) => ret.kind = "bundle"

C27_LoadWritesNothing ==
    [][(ret = Idle /\ ret'.op = "load") =>
           /\ files' = files
           /\ ret'.kind = "thread" =>
                  /\ Doc(ret'.src).llm_process_tag = Empty =>
                         ret'.payload = [Doc(ret'.src) EXCEPT !.llm_process_tag =
                                            _sanitize_llm_process_tag(ret'.tag)]
                  /\ Doc(ret'.src).llm_process_tag # Empty =>
                         ret'.payload = Doc(ret'.src)]_vars

\* the payload returned holds the tag of the call, the file read still holds
\* none
C27_Witness ==
    /\ ret.op = "load"
    /\ ret.kind = "thread"
    /\ ret.payload.llm_process_tag = <<"B">>
    /\ Doc(ret.src).llm_process_tag = Empty
    /\ ret.src = Legacy(ret.tid)

\* C28: a successful append_message writes one file, the canonical file of
\* the sanitized tag of the call, or of the stored tag of the thread loaded
\* when the call gives none; every other file is unchanged, the file read
\* among them when it is another one, and the file written holds the messages
\* of the file read and the new one.
C28_AppendWritesOneFile ==
    [][(ret = Idle /\ ret'.op = "append" /\ ret'.kind = "message") =>
           LET stored == Doc(ret'.src)
               target == Canonical(ret'.tid,
                             _sanitize_llm_process_tag(
                                 IF ret'.tag # Empty THEN ret'.tag
                                 ELSE stored.llm_process_tag))
           IN /\ ret'.path = target
              /\ DOMAIN files' = DOMAIN files \cup {target}
              /\ \A p \in DOMAIN files \ {target} : files'[p] = files[p]
              /\ files'[target][1].messages = Append(stored.messages, ret'.message)]_vars

\* an append tagged B read the untagged file, which keeps its one message,
\* and wrote the file of B with two
C28_Witness ==
    /\ ret.op = "append"
    /\ ret.kind = "message"
    /\ ret.tag = <<"B">>
    /\ ret.src = Legacy(ret.tid)
    /\ ret.path = Canonical(ret.tid, <<"B">>)
    /\ Len(Doc(ret.src).messages) = 1
    /\ Len(Doc(ret.path).messages) = 2

\* the id and the tag a file name holds
FileId(path) == LastChars(DropJsonExt(path), Len(T1))
FileTag(path) ==
    IF Len(DropJsonExt(path)) = Len(T1) THEN Empty
    ELSE SubSeq(DropJsonExt(path), 1, Len(DropJsonExt(path)) - Len(T1) - 1)

\* C29: in every state reached through create_thread, save_thread and
\* append_message, the llm_process_tag stored in a thread file is the
\* sanitized tag that prefixes the file name, empty for <id>.json, and the
\* thread_id stored is the id of the file name.
C29_FileNameMatchesPayload ==
    \A p \in DOMAIN files :
        /\ Doc(p).thread_id = FileId(p)
        /\ Doc(p).llm_process_tag = FileTag(p)
        /\ _sanitize_llm_process_tag(FileTag(p)) = FileTag(p)

\* a thread loaded from the untagged file was saved under the tag B
C29_Witness ==
    /\ ret.op = "save"
    /\ ret.tag = <<"B">>
    /\ ret.path = Canonical(T1, <<"B">>)
    /\ Exists(files, Legacy(T1))
    /\ Exists(files, Canonical(T1, <<"a">>))

\* a document, a summary or a directory without the llm_process_tag fields
Untagged(payload) ==
    [k \in DOMAIN payload \ {"llm_process_tag"} |-> payload[k]]

UntaggedDir(fs) ==
    [p \in DOMAIN fs |-> IF fs[p] = EmptyText THEN EmptyText
                         ELSE << Untagged(fs[p][1]) >>]

\* the directory after the legacy store wrote what l says
LegacyWritten(fs, l, kind) ==
    IF l.kind # kind THEN fs
    ELSE Put(fs, l.path, json_dumps(IF kind = "thread" THEN l.payload ELSE l.thread))

\* C30: on a chats directory without tagged files, every create_thread,
\* load_thread, append_message and list_threads call of the tagged store
\* without a process tag does what the same call of the legacy store does on
\* the same directory: the same error or the same result, the same path read
\* and written, the same file content, apart from the llm_process_tag field,
\* which is empty.
C30_RefinesLegacy ==
    [][(ret = Idle /\ ret'.op \in {"create", "load", "append", "list"}) =>
           /\ ret'.op = "create" =>
                  \E title \in Titles :
                      LET l == legacy_create_thread(UntaggedDir(files), title,
                                                    ret'.tid, clock)
                      IN /\ l.kind = ret'.kind
                         /\ l.path = ret'.path
                         /\ l.kind = "thread" =>
                                /\ l.payload = Untagged(ret'.payload)
                                /\ ret'.payload.llm_process_tag = Empty
                         /\ UntaggedDir(files') =
                                LegacyWritten(UntaggedDir(files), l, "thread")
           /\ ret'.op = "load" =>
                  LET l == legacy_load_thread(UntaggedDir(files), ret'.tid)
                  IN /\ l.kind = ret'.kind
                     /\ l.kind = "thread" =>
                            /\ l.src = ret'.src
                            /\ l.payload = Untagged(ret'.payload)
                            /\ ret'.payload.llm_process_tag = Empty
                     /\ files' = files
           /\ ret'.op = "append" =>
                  \E role \in Roles :
                      LET l == legacy_append_message(UntaggedDir(files), ret'.tid,
                                                     role, clock, nextId + 1)
                      IN /\ l.kind = ret'.kind
                         /\ l.kind = "message" =>
                                /\ l.message = ret'.message
                                /\ l.src = ret'.src
                                /\ l.path = ret'.path
                         /\ UntaggedDir(files') =
                                LegacyWritten(UntaggedDir(files), l, "message")
           /\ ret'.op = "list" =>
                  LET l == legacy_list_threads(UntaggedDir(files))
                  IN /\ l.kind = ret'.kind
                     /\ l.kind = "list" =>
                            /\ l.out = [i \in 1..Len(ret'.out) |-> Untagged(ret'.out[i])]
                            /\ \A i \in 1..Len(ret'.out) :
                                   ret'.out[i].llm_process_tag = Empty
                     /\ files' = files]_vars

----------------------------------------------------------------------------
(* Properties of the concurrent store *)

\* both callers are back from calls of kind op that overlapped on one path
\* (each had passed its read before the other began to write), p having
\* written before q
RacedPair(p, q, op) ==
    /\ p # q
    /\ pc[p] = "idle" /\ pc[q] = "idle"
    /\ rets[p].op = op /\ rets[q].op = op
    /\ rets[p].raced /\ rets[q].raced
    /\ rets[p].path = rets[q].path
    /\ rets[p].at < rets[q].at

\* C4: when two append_message calls on one thread file both load before
\* either saves, both return a message and the file ends up with the loaded
\* messages plus the message of the call that saved last only; the other
\* message is lost.
C4_LostUpdate ==
    \A p, q \in Procs :
        RacedPair(p, q, "append") =>
            /\ rets[p].kind = "message"
            /\ rets[q].kind = "message"
            /\ rets[p].message # rets[q].message
            /\ LET messages == files[rets[q].path][1].messages
               IN /\ messages = Append(rets[q].base, rets[q].message)
                  /\ ~InSeq(rets[p].message, messages)

C4_Witness ==
    \E p, q \in Procs :
        /\ RacedPair(p, q, "append")
        /\ rets[p].kind = "message"
        /\ rets[q].kind = "message"
        /\ Len(files[rets[q].path][1].messages) = 1

\* C6: when two create_thread calls for one (thread id, tag) both pass the
\* existence check before either writes, both return their payload and the
\* file holds the payload written last, so the payload written first is on
\* disk only if the two are equal.
C6_CreateRace ==
    \A p, q \in Procs :
        RacedPair(p, q, "create") =>
            /\ rets[p].kind = "thread"
            /\ rets[q].kind = "thread"
            /\ files[rets[q].path] = json_dumps(rets[q].payload)
            /\ rets[p].payload # rets[q].payload =>
                   files[rets[q].path] # json_dumps(rets[p].payload)

C6_Witness ==
    \E p, q \in Procs :
        /\ RacedPair(p, q, "create")
        /\ rets[p].kind = "thread"
        /\ rets[q].kind = "thread"
        /\ rets[p].payload # rets[q].payload
        /\ files[rets[q].path] = json_dumps(rets[q].payload)

\* C7: a load_thread running while another caller writes the thread file gets
\* the complete document before or after the write, never an empty or cut one.
C7_NoPartialRead ==
    \A p \in Procs :
        rets[p].op = "load" => rets[p].kind \in {"thread", "FileNotFoundError"}

====
